---- MODULE Spec2Model ----
(***************************************************************************)
(* Model of the document-session engine of copyapp.py: the ordered list of *)
(* open documents (CopyAppTUI.documents), the cursor                       *)
(* (CopyAppTUI.current_doc_index), the snippet list, and the operations of *)
(* CopyAppTUI that read or change them.                                    *)
(*                                                                         *)
(* Text is a sequence of one-character strings.  Timestamps (created_at,   *)
(* modified_at) are not modelled.  The filesystem, the clipboard and the   *)
(* network are the environment: whether a write succeeds, whether a path   *)
(* exists and what a read returns are inputs of the action that asks.      *)
(* out is the last thing the program emitted: the message a handler        *)
(* printed or, for a tick of the auto-save worker, the number of backup    *)
(* files it wrote.                                                         *)
(*                                                                         *)
(* Two views of the auto-save worker are kept.  Spec takes a tick as one   *)
(* step (perform_auto_save), which is what happens while the interactive   *)
(* thread waits for input.  SpecTick takes it statement by statement       *)
(* (tick_begin, tick_next, tick_write) interleaved with the interactive    *)
(* operations; worker is the worker thread's position and locals, and      *)
(* doc_ids gives every slot of the list the identity of its object         *)
(* (Python's id(doc)), which SpecTick needs to follow a document through   *)
(* the shifts of the list.  SpecFind applies find_in_document to contents  *)
(* drawn from a bounded set.                                               *)
(*                                                                         *)
(* The parts of the program that stand beside the document session have    *)
(* their own specifications and variables: history (CopyAppTUI.history,    *)
(* SpecHistory), db_documents (the documents table of DatabaseManager,     *)
(* SpecDb), fetch (one call of NetworkManager.fetch_multiple_urls with its *)
(* thread pool, SpecFetch) and args (the arguments of a call of one of the *)
(* static functions of TextProcessor and CryptoManager, SpecDetect and     *)
(* SpecCrypto).  Spec, SpecFind and SpecTick do not follow them: no        *)
(* operation they model records history, and the database answers the      *)
(* auto-save worker through the input db_ok.  SpecDecrypt applies          *)
(* decrypt_content to arbitrary text, SpecCursor starts the session with   *)
(* three documents, and SpecCheckpoint lets the tick write its rows to     *)
(* db_documents.  hooks is PluginManager.hooks (SpecHooks) and loop the     *)
(* position of the loop of run (SpecRun).                                  *)
(***************************************************************************)
EXTENDS Integers, Sequences, FiniteSets, TLC

VARIABLES documents, current_doc_index, out, doc_ids, worker,
          history, db_documents, fetch, args, hooks, loop

vars == <<documents, current_doc_index, out, doc_ids, worker,
          history, db_documents, fetch, args, hooks, loop>>

(***************************************************************************)
(* Bounds of the model.                                                    *)
(***************************************************************************)
MaxDocs == 2

MaxLen == 2

(***************************************************************************)
(* Input alphabets.                                                        *)
(***************************************************************************)
NoPath == "None"

TypedInputs == {NoPath, "/d/f1"}

Paths == {"/d/f1", "/d/f2"}

EditInputs == {<<>>, <<"a">>}

SnippetLists == {<<>>, <<<<"b">>>>}

SearchInputs == {<<"a">>, <<"A">>}

FindTextInputs == {<<"a">>}

ReplaceTextInputs == {<<"a">>, <<>>}

ClipboardInputs == {<<>>, <<"a">>}

FileInputs == {<<"a">>}

FetchInputs == {<<"a">>}

NumberInputs == 0 .. (MaxDocs + 1)

(***************************************************************************)
(* Pure helpers: the Python string and hashing primitives the code uses.   *)
(***************************************************************************)

\* ord(c) for the characters of the model's alphabet.
Ord(c) ==
  CASE c = "a" -> 97
    [] c = "b" -> 98
    [] c = "A" -> 65
    [] c = " " -> 32
    [] c = "\n" -> 10
    [] OTHER -> 63

\* str.lower() on one character.
LowerChar(c) ==
  IF c = "A" THEN "a" ELSE IF c = "B" THEN "b" ELSE IF c = "Y" THEN "y" ELSE c

\* str.lower()
Lower(s) == [i \in 1 .. Len(s) |-> LowerChar(s[i])]

\* str.encode(): the UTF-8 bytes of a text (one byte per ASCII character).
Encode(s) == [i \in 1 .. Len(s) |-> Ord(s[i])]

\* hashlib.md5(bytes).hexdigest(): a digest of fixed width (24 bits here,
\* 128 in md5) that is a function of the bytes and, like md5 on inputs this
\* small, has no collisions among texts of up to three characters.
RECURSIVE Md5(_)
Md5(b) ==
  IF b = <<>> THEN 1
  ELSE (Md5(SubSeq(b, 1, Len(b) - 1)) * 128 + b[Len(b)]) % 16777216

IsSpace(c) == c \in {" ", "\n"}

\* bool(s.strip()): some character of s is not whitespace.
StripNonEmpty(s) == \E i \in 1 .. Len(s) : ~IsSpace(s[i])

\* len(s.split('\n')): one more than the number of newlines.
LineCount(s) == Cardinality({i \in 1 .. Len(s) : s[i] = "\n"}) + 1

\* len(s.split()): the number of maximal runs of non-whitespace characters.
WordCount(s) ==
  Cardinality({i \in 1 .. Len(s) : ~IsSpace(s[i]) /\ (i = 1 \/ IsSpace(s[i - 1]))})

StartsWith(s, f) == Len(f) <= Len(s) /\ SubSeq(s, 1, Len(f)) = f

\* str.replace(find, repl): every non-overlapping occurrence, left to right;
\* an empty find puts repl before every character and at the end.
RECURSIVE StrReplace(_, _, _)
StrReplace(s, f, r) ==
  IF s = <<>> THEN (IF f = <<>> THEN r ELSE <<>>)
  ELSE IF f = <<>> THEN r \o <<s[1]>> \o StrReplace(Tail(s), f, r)
  ELSE IF StartsWith(s, f) THEN r \o StrReplace(SubSeq(s, Len(f) + 1, Len(s)), f, r)
  ELSE <<s[1]>> \o StrReplace(Tail(s), f, r)

\* str.count(find): the number of non-overlapping occurrences (len + 1 for
\* an empty find).
RECURSIVE StrCount(_, _)
StrCount(s, f) ==
  IF f = <<>> THEN Len(s) + 1
  ELSE IF s = <<>> THEN 0
  ELSE IF StartsWith(s, f) THEN 1 + StrCount(SubSeq(s, Len(f) + 1, Len(s)), f)
  ELSE StrCount(Tail(s), f)

\* find in s ("in" on strings).
Contains(s, f) == \E i \in 0 .. (Len(s) - Len(f)) : SubSeq(s, i + 1, i + Len(f)) = f

\* Path.name of the model's paths.
PathName(p) ==
  CASE p = "/d/f1" -> "f1"
    [] p = "/d/f2" -> "f2"
    [] OTHER -> p

\* The message a handler prints, with the count it reports (the matches of
\* find and replace, the backups of a tick; 0 for every other message).
Msg(m, n) == [msg |-> m, n |-> n]

(***************************************************************************)
(* DocumentTab.  changed_since_save is a history field, not a field of the *)
(* class: it records whether the content was changed by any operation      *)
(* since the document was constructed or last successfully saved.  It is   *)
(* maintained by Track alone, from the contents before and after an        *)
(* operation, never by the operators that model the handlers.              *)
(***************************************************************************)

\* DocumentTab.update_stats
update_stats(d) ==
  [d EXCEPT !.char_count = Len(d.content),
            !.word_count = WordCount(d.content),
            !.line_count = LineCount(d.content),
            !.checksum = Md5(Encode(d.content))]

\* DocumentTab(name, content, file_path): the dataclass defaults, then
\* __post_init__ (data_raw from the content, then update_stats).
DocumentTab(name, content, file_path) ==
  update_stats([name |-> name,
                content |-> content,
                file_path |-> file_path,
                modified |-> FALSE,
                data_raw |-> Encode(content),
                word_count |-> 0,
                char_count |-> 0,
                line_count |-> 0,
                checksum |-> 0,
                version |-> 1,
                changed_since_save |-> FALSE])

\* History bookkeeping for one operation on one document.
Track(before, after, saved) ==
  [after EXCEPT !.changed_since_save =
     IF saved THEN FALSE
     ELSE before.changed_since_save \/ after.content # before.content]

\* The name given to the n-th document of a kind: f"Untitled-{n}" etc.
NumberedName(prefix, n) == prefix \o ToString(n)

\* EditDoc with the modified flag set whether or not the content differs.
EditDocAlwaysModified(d, new_content) ==
  [d EXCEPT !.content = new_content,
            !.modified = TRUE,
            !.data_raw = Encode(new_content)]

\* EditDoc counting every edit as a new version.
EditDocBumpsVersion(d, new_content) ==
  IF new_content # d.content
  THEN [d EXCEPT !.content = new_content,
                 !.modified = TRUE,
                 !.data_raw = Encode(new_content),
                 !.version = d.version + 1]
  ELSE d

\* edit_document, from new_content on: the document after the edit.
EditDoc(d, new_content) ==
  IF new_content # d.content
  THEN [d EXCEPT !.content = new_content,
                 !.modified = TRUE,
                 !.data_raw = Encode(new_content)]
  ELSE d

\* save_file after a successful write_text.
SavedDoc(d, path) ==
  [d EXCEPT !.file_path = path, !.name = PathName(path), !.modified = FALSE]

\* ReplacedDoc marking the document modified whether or not anything was
\* replaced.
ReplacedDocAlwaysModified(d, find_text, replace_text) ==
  LET new_content == StrReplace(d.content, find_text, replace_text)
  IN [d EXCEPT !.content = new_content,
               !.modified = TRUE,
               !.data_raw = Encode(new_content)]

\* replace_in_document: the document after the replacement.
ReplacedDoc(d, find_text, replace_text) ==
  LET new_content == StrReplace(d.content, find_text, replace_text)
  IN IF new_content # d.content
     THEN [d EXCEPT !.content = new_content,
                    !.modified = TRUE,
                    !.data_raw = Encode(new_content)]
     ELSE d

\* SnippetInsertedDoc without the modified flag.
SnippetInsertedDocUnmarked(d, snippet) ==
  [d EXCEPT !.content = d.content \o <<"\n">> \o snippet]

\* manage_snippets, choice 3: the document after the snippet is inserted.
SnippetInsertedDoc(d, snippet) ==
  [d EXCEPT !.content = d.content \o <<"\n">> \o snippet, !.modified = TRUE]

\* get_current_document: the position (0-based) of the document it returns.
CurrentIndex ==
  IF 0 <= current_doc_index /\ current_doc_index < Len(documents)
  THEN current_doc_index
  ELSE 0

\* get_current_document
get_current_document == documents[CurrentIndex + 1]

\* list.pop() without its argument: the last element goes.
PopLast(seq, idx) == SubSeq(seq, 1, Len(seq) - 1)

\* list.pop(idx) for a 0-based idx in range.
Pop(seq, idx) == SubSeq(seq, 1, idx) \o SubSeq(seq, idx + 2, Len(seq))

\* The documents with the current one replaced by what an operation made
\* of it.
WithCurrent(after, saved) ==
  [documents EXCEPT ![CurrentIndex + 1] = Track(@, after, saved)]

\* AppendDocument putting the new document first.
InsertDocumentFirst(doc) ==
  /\ documents' = <<doc>> \o documents
  /\ current_doc_index' = 0

\* documents.append(doc) followed by current_doc_index = len(documents) - 1.
AppendDocument(doc) ==
  /\ documents' = Append(documents, doc)
  /\ current_doc_index' = Len(documents)

(***************************************************************************)
(* Initial state: CopyAppTUI.__init__, which ends by starting the          *)
(* auto-save thread; the thread begins in its time.sleep.                  *)
(***************************************************************************)

\* No call of fetch_multiple_urls, and no call of a static function, is in
\* progress.
NoFetch == [pc |-> "idle"]

NoArgs == [fn |-> "none"]

\* The events callbacks are registered for.
HookNames == {"on_save", "on_open"}

\* No callback is registered for any event, and run is at its prompt.
NoHooks == [hook_name \in HookNames |-> <<>>]

LoopStart == "prompt"

\* What is beside the session when the program starts: no history file, and
\* the tables init_database has just created.
AsideStart ==
  /\ history = <<>>
  /\ db_documents = <<>>
  /\ fetch = NoFetch
  /\ hooks = NoHooks
  /\ loop = LoopStart
  /\ args = NoArgs

\* A step of the session leaves what is beside it alone.
Aside == UNCHANGED <<history, db_documents, fetch, args, hooks, loop>>

\* No object: the value of the worker's doc while it holds none.
NoDoc == 0

\* auto_save_worker before its first tick.  pc is the statement the thread
\* is at, i the position of the list iterator of perform_auto_save, doc the
\* identity of the object its loop variable holds.  The other two fields
\* are a log of the tick in progress, empty while the worker sleeps:
\* pending are the documents that were eligible when the tick began and
\* that the iterator has not yielded yet; result is how the last try
\* statement ended ("saved": backup file written and document saved to the
\* database; "backup_only": save_document raised; "failed": write_text
\* raised; "none": no try statement was run yet).
WorkerStart ==
  [pc |-> "sleeping", i |-> 0, doc |-> NoDoc, pending |-> {}, result |-> "none"]

Init ==
  /\ documents = <<DocumentTab("Untitled", <<>>, NoPath)>>
  /\ current_doc_index = 0
  /\ out = Msg("Banner", 0)
  /\ doc_ids = <<1>>
  /\ worker = WorkerStart
  /\ AsideStart

(***************************************************************************)
(* The interactive operations.                                             *)
(***************************************************************************)

\* run, command "new"
new_document ==
  /\ Len(documents) < MaxDocs
  /\ AppendDocument(DocumentTab(NumberedName("Untitled-", Len(documents) + 1), <<>>, NoPath))
  /\ out' = Msg("Created", 0)

\* open_file opening an empty document under the name when the file cannot
\* be read.
open_file_or_empty(path, exists, read_ok, content) ==
  /\ Len(documents) < MaxDocs
  /\ AppendDocument(DocumentTab(PathName(path), IF exists /\ read_ok THEN content ELSE <<>>, path))
  /\ out' = IF ~exists THEN Msg("FileNotFound", 0)
            ELSE IF ~read_ok THEN Msg("ErrorOpening", 0)
            ELSE Msg("Opened", 0)

\* open_file: exists and read_ok are the filesystem's answers, content is
\* what the read returns.
open_file(path, exists, read_ok, content) ==
  /\ IF ~exists
     THEN /\ out' = Msg("FileNotFound", 0)
          /\ UNCHANGED <<documents, current_doc_index>>
     ELSE IF ~read_ok
     THEN /\ out' = Msg("ErrorOpening", 0)
          /\ UNCHANGED <<documents, current_doc_index>>
     ELSE /\ Len(documents) < MaxDocs
          /\ AppendDocument(DocumentTab(PathName(path), content, path))
          /\ out' = Msg("Opened", 0)

\* paste_from_clipboard: content is the clipboard's text.
paste_from_clipboard(content) ==
  /\ IF content # <<>>
     THEN /\ Len(documents) < MaxDocs
          /\ AppendDocument(DocumentTab(NumberedName("Clipboard-", Len(documents) + 1), content, NoPath))
          /\ out' = Msg("Pasted", 0)
     ELSE /\ out' = Msg("ClipboardEmpty", 0)
          /\ UNCHANGED <<documents, current_doc_index>>

\* fetch_url: fetched_ok is whether the request and its decoding succeeded,
\* content the text left after the HTML is stripped.
fetch_url(fetched_ok, content) ==
  /\ IF fetched_ok
     THEN /\ Len(documents) < MaxDocs
          /\ AppendDocument(DocumentTab("URL-x", content, NoPath))
          /\ out' = Msg("Fetched", 0)
     ELSE /\ out' = Msg("FetchFailed", 0)
          /\ UNCHANGED <<documents, current_doc_index>>

\* SaveTarget trying the document's own path before the filename given.
SaveTargetOwnPathFirst(d, filename, typed) ==
  IF d.file_path # NoPath THEN d.file_path
  ELSE IF filename # NoPath THEN filename
  ELSE typed

\* save_file: the path it writes to; NoPath when no filename is given, the
\* document has none and the prompt is answered with an empty line.
SaveTarget(d, filename, typed) ==
  IF filename # NoPath THEN filename
  ELSE IF d.file_path # NoPath THEN d.file_path
  ELSE typed

\* FailedSaveDoc with the path recorded before the write is attempted.
FailedSaveDocKeepsPath(d, path) == [d EXCEPT !.file_path = path, !.name = PathName(path)]

\* save_file when write_text raises: the except branch only prints.
FailedSaveDoc(d, path) == d

\* save_file: write_ok is whether path.write_text succeeds.
save_file(filename, typed, write_ok) ==
  LET doc == get_current_document
      path == SaveTarget(doc, filename, typed)
  IN /\ IF path = NoPath
        THEN /\ out' = Msg("NoFilename", 0)
             /\ UNCHANGED documents
        ELSE IF write_ok
        THEN /\ documents' = WithCurrent(SavedDoc(doc, path), TRUE)
             /\ out' = Msg("Saved", 0)
        ELSE /\ documents' = WithCurrent(FailedSaveDoc(doc, path), FALSE)
             /\ out' = Msg("ErrorSaving", 0)
     /\ UNCHANGED current_doc_index

\* edit_document, ended by end of input.
edit_document(new_content) ==
  LET doc == get_current_document
  IN /\ documents' = WithCurrent(EditDoc(doc, new_content), FALSE)
     /\ out' = IF new_content # doc.content THEN Msg("Updated", 0) ELSE Msg("NoChanges", 0)
     /\ UNCHANGED current_doc_index

\* edit_document, ended by KeyboardInterrupt.
edit_cancelled ==
  /\ out' = Msg("EditCancelled", 0)
  /\ UNCHANGED <<documents, current_doc_index>>

\* CopyAppGUI.on_text_changed; the refresh it ends with sets the editor's
\* text to the content just stored, which changes nothing more.
on_text_changed(new_content) ==
  /\ 0 <= current_doc_index /\ current_doc_index < Len(documents)
  /\ documents' = WithCurrent(EditDoc(get_current_document, new_content), FALSE)
  /\ UNCHANGED <<current_doc_index, out>>

\* s.split('\n')
RECURSIVE SplitLines(_)
SplitLines(s) ==
  IF \A i \in 1 .. Len(s) : s[i] # "\n" THEN <<s>>
  ELSE LET k == CHOOSE i \in 1 .. Len(s) : s[i] = "\n" /\ \A j \in 1 .. (i - 1) : s[j] # "\n"
       IN <<SubSeq(s, 1, k - 1)>> \o SplitLines(SubSeq(s, k + 1, Len(s)))

\* find_in_document's test, taking the case of the letters into account.
FindMatchesCaseSensitive(content, search_text) ==
  LET lines == SplitLines(content)
  IN {i \in 1 .. Len(lines) : Contains(lines[i], search_text)}

\* find_in_document: the 1-based numbers of the matching lines, ascending.
FindMatches(content, search_text) ==
  LET lines == SplitLines(content)
  IN {i \in 1 .. Len(lines) : Contains(Lower(lines[i]), Lower(search_text))}

\* line.strip()
Strip(s) ==
  LET keep == {i \in 1 .. Len(s) : ~IsSpace(s[i])}
  IN IF keep = {} THEN <<>>
     ELSE SubSeq(s, CHOOSE i \in keep : \A j \in keep : i <= j,
                    CHOOSE i \in keep : \A j \in keep : i >= j)

\* find_in_document: the list matches as the loop over enumerate(lines, 1)
\* builds it, from line i on.
RECURSIVE MatchesFrom(_, _, _)
MatchesFrom(lines, hits, i) ==
  IF i > Len(lines) THEN <<>>
  ELSE (IF i \in hits THEN <<<<i, Strip(lines[i])>>>> ELSE <<>>)
         \o MatchesFrom(lines, hits, i + 1)

\* matches[:10]: the number of matches find_in_document prints.
ShownLimit == 10

\* find_in_document: what it prints.  n is the total of the first line,
\* shown the "Line i: text" lines, more the count of the "... and k more
\* matches" line (0 when that line is not printed).
FindReport(content, search_text) ==
  LET matches == MatchesFrom(SplitLines(content), FindMatches(content, search_text), 1)
  IN IF matches # <<>>
     THEN [msg |-> "Found",
           n |-> Len(matches),
           shown |-> SubSeq(matches, 1, IF Len(matches) > ShownLimit THEN ShownLimit ELSE Len(matches)),
           more |-> IF Len(matches) > ShownLimit THEN Len(matches) - ShownLimit ELSE 0]
     ELSE [msg |-> "NoMatchesFind", n |-> 0, shown |-> <<>>, more |-> 0]

\* find_in_document
find_in_document(search_text) ==
  /\ out' = FindReport(get_current_document.content, search_text)
  /\ UNCHANGED <<documents, current_doc_index>>

\* replace_in_document
replace_in_document(find_text, replace_text) ==
  LET doc == get_current_document
      new_content == StrReplace(doc.content, find_text, replace_text)
  IN /\ Len(new_content) <= MaxLen
     /\ documents' = WithCurrent(ReplacedDoc(doc, find_text, replace_text), FALSE)
     /\ out' = IF new_content # doc.content
               THEN Msg("Replaced", StrCount(doc.content, find_text))
               ELSE Msg("NoMatchesReplace", 0)
     /\ UNCHANGED current_doc_index

\* manage_snippets, choice 3 with a numeric answer n (1-based).  The
\* snippet list (self.snippets: loaded from SNIPPETS_FILE, changed only by
\* choices 2 and 4, which touch no document) is an input here.
use_snippet(snippet_list, n) ==
  /\ IF snippet_list = <<>>
     THEN /\ out' = Msg("NoSnippets", 0)
          /\ UNCHANGED documents
     ELSE IF 0 <= n - 1 /\ n - 1 < Len(snippet_list)
     THEN LET doc == get_current_document
          IN /\ Len(doc.content) + 1 + Len(snippet_list[n]) <= MaxLen
             /\ documents' = WithCurrent(SnippetInsertedDoc(doc, snippet_list[n]), FALSE)
             /\ out' = Msg("SnippetInserted", 0)
     ELSE /\ out' = Msg("InvalidSnippet", 0)
          /\ UNCHANGED documents
  /\ UNCHANGED current_doc_index

\* PositionOf taking the number given as the position itself.
PositionOfZeroBased(index) == index

\* idx = int(index) - 1: the 0-based position a document number names.
PositionOf(index) == index - 1

\* switch_document with a numeric argument: index is the number the user
\* gives.
switch_document(index) ==
  LET idx == PositionOf(index)
  IN /\ IF 0 <= idx /\ idx < Len(documents)
        THEN /\ current_doc_index' = idx
             /\ out' = Msg("Switched", 0)
        ELSE /\ out' = Msg("InvalidDocNumber", 0)
             /\ UNCHANGED current_doc_index
     /\ UNCHANGED <<documents>>

\* switch_document with an argument int() rejects (ValueError).
switch_document_not_a_number ==
  /\ out' = Msg("NotANumber", 0)
  /\ UNCHANGED <<documents, current_doc_index>>

\* max(0, n) without the max.
Max0Unclamped(n) == n

\* max(0, n)
Max0(n) == IF n > 0 THEN n ELSE 0

\* IsLastDocument off by one.
IsLastDocumentOffByOne == Len(documents) <= 0

\* NeedsConfirmation never asking.
NeedsConfirmationNever(d) == FALSE

\* close_document: only one document remains.
IsLastDocument == Len(documents) <= 1

\* close_document: the document cannot be closed without asking.
NeedsConfirmation(d) == d.modified

\* The cursor after documents.pop(idx) when it moves only if it has to.
CursorAfterCloseLazy(idx) ==
  IF current_doc_index > Len(documents) - 2
  THEN Len(documents) - 2
  ELSE current_doc_index

\* The cursor after documents.pop(idx): one down, but not below 0, when the
\* popped position is at or before it.
CursorAfterClose(idx) ==
  IF idx <= current_doc_index
  THEN Max0(current_doc_index - 1)
  ELSE current_doc_index

\* close_document: has_index is whether an index is given, index the
\* number given (1-based), confirmed whether the prompt about unsaved
\* changes is answered "y".
close_document(has_index, index, confirmed) ==
  /\ IF IsLastDocument
     THEN /\ out' = Msg("CannotCloseLast", 0)
          /\ UNCHANGED <<documents, current_doc_index>>
     ELSE LET idx == IF has_index THEN PositionOf(index) ELSE current_doc_index
          IN IF 0 <= idx /\ idx < Len(documents)
             THEN IF NeedsConfirmation(documents[idx + 1]) /\ ~confirmed
                  THEN /\ out' = Msg("CloseCancelled", 0)
                       /\ UNCHANGED <<documents, current_doc_index>>
                  ELSE /\ documents' = Pop(documents, idx)
                       /\ current_doc_index' = CursorAfterClose(idx)
                       /\ out' = Msg("Closed", 0)
             ELSE /\ out' = Msg("InvalidDocNumber", 0)
                  /\ UNCHANGED <<documents, current_doc_index>>

\* close_document with an argument int() rejects (ValueError).
close_document_not_a_number ==
  /\ out' = IF IsLastDocument THEN Msg("CannotCloseLast", 0) ELSE Msg("NotANumber", 0)
  /\ UNCHANGED <<documents, current_doc_index>>

\* perform_auto_save: the slots (0-based positions) whose documents it
\* backs up.
AutoSaveEligible ==
  {i \in 0 .. (Len(documents) - 1) :
     documents[i + 1].modified /\ StripNonEmpty(documents[i + 1].content)}

\* perform_auto_save clearing the modified flag of what it backed up.
perform_auto_save_clearing(failed) ==
  /\ out' = Msg("AutoSaved", Cardinality(AutoSaveEligible \ failed))
  /\ documents' =
       [i \in 1 .. Len(documents) |->
          IF (i - 1) \in (AutoSaveEligible \ failed)
          THEN [documents[i] EXCEPT !.modified = FALSE]
          ELSE documents[i]]
  /\ UNCHANGED current_doc_index

\* perform_auto_save, one tick of auto_save_worker: failed are the slots
\* whose backup write raises (the exception is swallowed).
perform_auto_save(failed) ==
  /\ out' = Msg("AutoSaved", Cardinality(AutoSaveEligible \ failed))
  /\ UNCHANGED <<documents, current_doc_index>>

\* What Spec leaves alone: it takes a tick as one step and does not follow
\* object identities.
WorkerIdle == UNCHANGED <<doc_ids, worker>> /\ Aside

Next ==
  \/ new_document /\ WorkerIdle
  \/ \E path \in Paths, exists \in BOOLEAN, read_ok \in BOOLEAN, content \in FileInputs :
       open_file(path, exists, read_ok, content) /\ WorkerIdle
  \/ \E content \in ClipboardInputs : paste_from_clipboard(content) /\ WorkerIdle
  \/ \E fetched_ok \in BOOLEAN, content \in FetchInputs : fetch_url(fetched_ok, content) /\ WorkerIdle
  \/ \E filename \in Paths \cup {NoPath}, typed \in TypedInputs, write_ok \in BOOLEAN :
       save_file(filename, typed, write_ok) /\ WorkerIdle
  \/ \E new_content \in EditInputs : edit_document(new_content) /\ WorkerIdle
  \/ edit_cancelled /\ WorkerIdle
  \/ \E new_content \in EditInputs : on_text_changed(new_content) /\ WorkerIdle
  \/ \E search_text \in SearchInputs : find_in_document(search_text) /\ WorkerIdle
  \/ \E find_text \in FindTextInputs, replace_text \in ReplaceTextInputs :
       replace_in_document(find_text, replace_text) /\ WorkerIdle
  \/ \E snippet_list \in SnippetLists, n \in NumberInputs : use_snippet(snippet_list, n) /\ WorkerIdle
  \/ \E index \in NumberInputs : switch_document(index) /\ WorkerIdle
  \/ switch_document_not_a_number /\ WorkerIdle
  \/ \E confirmed \in BOOLEAN : close_document(FALSE, 0, confirmed) /\ WorkerIdle
  \/ \E index \in NumberInputs, confirmed \in BOOLEAN : close_document(TRUE, index, confirmed) /\ WorkerIdle
  \/ close_document_not_a_number /\ WorkerIdle
  \/ \E failed \in SUBSET (0 .. (MaxDocs - 1)) : perform_auto_save(failed) /\ WorkerIdle

Spec == Init /\ [][Next]_vars

(***************************************************************************)
(* SpecFind: find_in_document applied to a file given on the command line  *)
(* (main opens it before run starts), for every content of a bounded set    *)
(* and every search text.                                                  *)
(***************************************************************************)

\* The longest content of FindContents built letter by letter.
MaxFindLen == 3

FindAlphabet == {"a", "A", "b", " ", "\n"}

\* k lines, each holding line, joined by newlines.
RECURSIVE JoinedLines(_, _)
JoinedLines(line, k) ==
  IF k <= 1 THEN line ELSE line \o <<"\n">> \o JoinedLines(line, k - 1)

\* Every text of at most MaxFindLen characters, and texts with about
\* ShownLimit matching lines (some after a line that does not match).
FindContents ==
  UNION {[1 .. n -> FindAlphabet] : n \in 0 .. MaxFindLen}
    \cup {JoinedLines(<<"a">>, k) : k \in (ShownLimit - 1) .. (ShownLimit + 2)}
    \cup {<<"b", "\n">> \o JoinedLines(<<" ", "A">>, ShownLimit + 1)}

FindSearchInputs == {<<"a">>, <<"A">>, <<"b">>, <<"a", " ", "b">>}

\* main: CopyAppTUI(), then open_file on the file named on the command line.
InitFind ==
  /\ \E content \in FindContents :
       documents = <<DocumentTab("Untitled", <<>>, NoPath),
                     DocumentTab(PathName("/d/f1"), content, "/d/f1")>>
  /\ current_doc_index = 1
  /\ out = Msg("Opened", 0)
  /\ doc_ids = <<1, 2>>
  /\ worker = WorkerStart
  /\ AsideStart

NextFind ==
  \E search_text \in FindSearchInputs : find_in_document(search_text) /\ WorkerIdle

SpecFind == InitFind /\ [][NextFind]_vars

(***************************************************************************)
(* SpecTick: the auto-save thread statement by statement, interleaved with *)
(* the interactive thread.  Both run under the interpreter lock, so one    *)
(* handler step or one worker statement happens at a time, in any order.   *)
(***************************************************************************)

TickEditInputs == {<<"a">>, <<" ">>}

\* The identities of the objects in the list.
IdSet == {doc_ids[k] : k \in 1 .. Len(doc_ids)}

\* The identity of a newly constructed object: one that no live reference
\* and no entry of the tick's log names.
FreshId ==
  LET used == IdSet \cup {worker.doc} \cup worker.pending
  IN CHOOSE n \in 1 .. (Cardinality(used) + 1) :
       n \notin used /\ \A m \in 1 .. (n - 1) : m \in used

\* NeedsBackup taking every non-empty content, blank or not.
NeedsBackupAnyContent(d) == d.modified /\ d.content # <<>>

\* perform_auto_save: `if doc.modified and doc.content.strip()`.
NeedsBackup(d) == d.modified /\ StripNonEmpty(d.content)

\* auto_save_worker: time.sleep returns and perform_auto_save starts; the
\* for statement creates the iterator over self.documents at position 0.
tick_begin ==
  /\ worker.pc = "sleeping"
  /\ worker' = [pc |-> "iterating", i |-> 0, doc |-> NoDoc,
                pending |-> {doc_ids[k] : k \in {j \in 1 .. Len(documents) : NeedsBackup(documents[j])}},
                result |-> "none"]
  /\ UNCHANGED <<documents, current_doc_index, out, doc_ids>>
  /\ Aside

\* perform_auto_save: the for statement asks the iterator for the next
\* element of the list as it is now, and the if statement tests it; when the
\* iterator is exhausted perform_auto_save returns, its locals are gone and
\* the worker sleeps.
tick_next ==
  /\ worker.pc = "iterating"
  /\ IF worker.i < Len(documents)
     THEN LET d == documents[worker.i + 1]
              id == doc_ids[worker.i + 1]
          IN worker' = [worker EXCEPT !.i = @ + 1,
                                      !.doc = id,
                                      !.pending = @ \ {id},
                                      !.pc = IF NeedsBackup(d) THEN "writing" ELSE "iterating"]
     ELSE worker' = WorkerStart
  /\ UNCHANGED <<documents, current_doc_index, out, doc_ids>>
  /\ Aside

\* The try statement's outcome.
WriteResult(write_ok, db_ok) ==
  IF ~write_ok THEN "failed" ELSE IF ~db_ok THEN "backup_only" ELSE "saved"

\* tick_write putting a document it finds missing from the list back at
\* its end.
tick_write_restoring(write_ok, db_ok) ==
  /\ worker.pc = "writing"
  /\ worker' = [worker EXCEPT !.pc = "iterating", !.result = WriteResult(write_ok, db_ok)]
  /\ IF worker.doc \in IdSet
     THEN UNCHANGED <<documents, doc_ids>>
     ELSE /\ documents' = Append(documents, DocumentTab("Untitled", <<"a">>, NoPath))
          /\ doc_ids' = Append(doc_ids, worker.doc)
  /\ UNCHANGED <<current_doc_index, out>>
  /\ Aside

\* tick_write marking the document it backed up as saved.
tick_write_clearing(write_ok, db_ok) ==
  /\ worker.pc = "writing"
  /\ worker' = [worker EXCEPT !.pc = "iterating", !.result = WriteResult(write_ok, db_ok)]
  /\ documents' = [k \in 1 .. Len(documents) |->
                     IF doc_ids[k] = worker.doc /\ write_ok
                     THEN [documents[k] EXCEPT !.modified = FALSE]
                     ELSE documents[k]]
  /\ UNCHANGED <<current_doc_index, out, doc_ids>>
  /\ Aside

\* tick_write letting a failed write end the loop and the thread.
tick_write_stopping(write_ok, db_ok) ==
  /\ worker.pc = "writing"
  /\ worker' = [worker EXCEPT
       !.pc = IF write_ok /\ db_ok THEN "iterating" ELSE "stopped",
       !.result = WriteResult(write_ok, db_ok)]
  /\ UNCHANGED <<documents, current_doc_index, out, doc_ids>>
  /\ Aside

\* perform_auto_save, the try statement: backup_file.write_text(doc.content)
\* then self.db.save_document(doc), on the object the loop variable holds.
\* write_ok and db_ok are whether each succeeds; when one raises, the bare
\* except passes and the loop goes on.
tick_write(write_ok, db_ok) ==
  /\ worker.pc = "writing"
  /\ worker' = [worker EXCEPT !.pc = "iterating", !.result = WriteResult(write_ok, db_ok)]
  /\ UNCHANGED <<documents, current_doc_index, out, doc_ids>>
  /\ Aside

\* The steps of the worker thread.
WorkerNext ==
  \/ tick_begin
  \/ tick_next
  \/ \E write_ok \in BOOLEAN, db_ok \in BOOLEAN : tick_write(write_ok, db_ok)

\* The position close_document removes when it removes one.
ClosedPosition(has_index, index) ==
  IF has_index THEN PositionOf(index) ELSE current_doc_index

\* The steps of the interactive thread, with the identities following the
\* list: append gives the new object a fresh one, pop drops the one at the
\* position popped.
InteractiveNext ==
  \/ new_document /\ doc_ids' = Append(doc_ids, FreshId) /\ UNCHANGED worker /\ Aside
  \/ \E new_content \in TickEditInputs : edit_document(new_content) /\ WorkerIdle
  \/ \E has_index \in BOOLEAN, index \in NumberInputs, confirmed \in BOOLEAN :
       /\ close_document(has_index, index, confirmed)
       /\ doc_ids' = IF Len(documents') < Len(documents)
                     THEN Pop(doc_ids, ClosedPosition(has_index, index))
                     ELSE doc_ids
       /\ UNCHANGED worker
       /\ Aside

NextTick == InteractiveNext \/ WorkerNext

SpecTick == Init /\ [][NextTick]_vars

\* The worker thread is scheduled again and again: its sleep returns and
\* each of its statements completes.
SpecTickFair == SpecTick /\ WF_vars(WorkerNext)

(***************************************************************************)
(* SpecFetch: one call of NetworkManager.fetch_multiple_urls.  The caller  *)
(* submits fetch_single for every URL to a ThreadPoolExecutor, collects    *)
(* the futures as they complete and returns the mapping.  The executor     *)
(* queues the submitted calls in order and runs them on at most            *)
(* max_workers threads; what the network answers each request is an input. *)
(***************************************************************************)

\* The longest list of URLs and the largest pool of the model.
MaxUrls == 3

MaxWorkers == 2

UrlInputs == UNION {[1 .. n -> {"u1", "u2"}] : n \in 0 .. MaxUrls}

\* What the network does with a request: a response, a refused connection,
\* or no answer within the timeout of urlopen.
AnswerInputs == {"response", "refused", "timeout"}

\* The bytes the server of a URL sends (those of u2 are not valid UTF-8).
Body(url) == IF url = "u1" THEN <<97>> ELSE <<98, 255>>

\* chr(n) for the characters of the model's alphabet.
Chr(n) ==
  CASE n = 97 -> "a"
    [] n = 98 -> "b"
    [] n = 65 -> "A"
    [] n = 32 -> " "
    [] n = 10 -> "\n"
    [] OTHER -> "?"

\* content.decode('utf-8'), and with errors='replace' when that raises:
\* a byte that is not valid UTF-8 becomes the replacement character.
DecodeReplace(bytes) ==
  [k \in 1 .. Len(bytes) |-> IF bytes[k] < 128 THEN Chr(bytes[k]) ELSE "U+FFFD"]

\* fetch_single letting the exception of a failed request through.
fetch_single_uncaught(url, answer) ==
  IF answer = "response"
  THEN [raised |-> FALSE, url |-> url, content |-> DecodeReplace(Body(url))]
  ELSE [raised |-> TRUE, url |-> url, content |-> <<>>]

\* fetch_single: what the call returns, (url, decoded) or, when anything
\* raises, (url, f"Error: {e}").
fetch_single(url, answer) ==
  IF answer = "response"
  THEN [raised |-> FALSE, url |-> url, content |-> DecodeReplace(Body(url))]
  ELSE [raised |-> FALSE, url |-> url, content |-> <<"Error: ", answer>>]

\* results = {}
EmptyResults == [u \in {} |-> <<>>]

\* results[url] = content
Assigned(results, url, content) ==
  [u \in (DOMAIN results) \cup {url} |-> IF u = url THEN content ELSE results[u]]

\* The futures (by position of submission) in a given state.
FuturesIn(state) ==
  {k \in 1 .. Len(fetch.futures) : fetch.futures[k].state = state}

\* The executor starts a queued call only on a free thread.
PoolHasRoomAlways == TRUE

PoolHasRoom == Cardinality(FuturesIn("running")) < fetch.max_workers

\* The caller leaves the for loop when as_completed has yielded every
\* future.
AllCollected == fetch.collected = 1 .. Len(fetch.urls)

\* The with statement ends with executor.shutdown(wait=True): the caller
\* goes on when no submitted call is queued or running.
Joined == FuturesIn("queued") \cup FuturesIn("running") = {}

\* A caller that waits for nothing.
CanReturnAtOnce == TRUE

\* The caller returns after the for loop and the with statement.
CanReturn == AllCollected /\ Joined

\* The call: results = {} and the executor is created.
fetch_multiple_urls(urls, max_workers) ==
  /\ fetch.pc = "idle"
  /\ fetch' = [pc |-> "submitting", urls |-> urls, max_workers |-> max_workers,
               futures |-> <<>>, collected |-> {}, results |-> EmptyResults]

\* The dict comprehension: executor.submit(fetch_single, url) for the next
\* URL; after the last one the caller enters the for loop.
submit ==
  /\ fetch.pc = "submitting"
  /\ IF Len(fetch.futures) < Len(fetch.urls)
     THEN fetch' = [fetch EXCEPT !.futures =
                      Append(@, [state |-> "queued", answer |-> "none", raised |-> FALSE,
                                 url |-> fetch.urls[Len(fetch.futures) + 1],
                                 content |-> <<>>])]
     ELSE fetch' = [fetch EXCEPT !.pc = "collecting"]

\* A thread of the pool takes the oldest queued call and begins it (the
\* threads run whatever the caller is doing).
worker_start(k) ==
  /\ fetch.pc \in {"submitting", "collecting", "returned"}
  /\ k \in FuturesIn("queued")
  /\ \A j \in FuturesIn("queued") : k <= j
  /\ PoolHasRoom
  /\ fetch' = [fetch EXCEPT !.futures[k].state = "running"]

\* worker_finish storing its result in the mapping itself, as a new mapping
\* built from the one it read when it started.
worker_finish_writing(k, answer) ==
  /\ fetch.pc \in {"submitting", "collecting", "returned"}
  /\ k \in FuturesIn("running")
  /\ LET ret == fetch_single(fetch.urls[k], answer)
     IN fetch' = [fetch EXCEPT !.futures[k] = ret @@ [state |-> "done", answer |-> answer],
                               !.results = Assigned(EmptyResults, ret.url, ret.content)]

\* The call of fetch_single run by a thread ends: the future holds what it
\* returned (or raised); answer keeps what the network did.
worker_finish(k, answer) ==
  /\ fetch.pc \in {"submitting", "collecting", "returned"}
  /\ k \in FuturesIn("running")
  /\ LET ret == fetch_single(fetch.urls[k], answer)
     IN fetch' = [fetch EXCEPT !.futures[k] = ret @@ [state |-> "done", answer |-> answer]]

\* collect leaving out the URLs whose request failed.
collect_successes(k) ==
  /\ fetch.pc = "collecting"
  /\ k \in FuturesIn("done") \ fetch.collected
  /\ LET f == fetch.futures[k]
     IN fetch' = [fetch EXCEPT
          !.collected = @ \cup {k},
          !.results = IF f.content # <<>> /\ f.content[1] = "Error: "
                      THEN @ ELSE Assigned(@, f.url, f.content)]

\* One turn of the for loop: as_completed yields a finished future,
\* future.result() returns what fetch_single returned (or raises what it
\* raised, which nothing catches), and results[url] = content.
collect(k) ==
  /\ fetch.pc = "collecting"
  /\ k \in FuturesIn("done") \ fetch.collected
  /\ LET f == fetch.futures[k]
     IN IF f.raised
        THEN fetch' = [fetch EXCEPT !.pc = "raised"]
        ELSE fetch' = [fetch EXCEPT !.collected = @ \cup {k},
                                    !.results = Assigned(@, f.url, f.content)]

\* The for loop is over, the with statement shuts the executor down and
\* the mapping is returned.
return_results ==
  /\ fetch.pc = "collecting"
  /\ CanReturn
  /\ fetch' = [fetch EXCEPT !.pc = "returned"]

\* The session, the history, the database and the static functions take no
\* part in a batch.
FetchFrame ==
  UNCHANGED <<documents, current_doc_index, out, doc_ids, worker, history, db_documents, args, hooks, loop>>

\* The steps of a call once it is made.
FetchStep ==
  \/ submit /\ FetchFrame
  \/ \E k \in 1 .. MaxUrls : worker_start(k) /\ FetchFrame
  \/ \E k \in 1 .. MaxUrls, answer \in AnswerInputs : worker_finish(k, answer) /\ FetchFrame
  \/ \E k \in 1 .. MaxUrls : collect(k) /\ FetchFrame
  \/ return_results /\ FetchFrame

NextFetch ==
  \/ \E urls \in UrlInputs, max_workers \in 1 .. MaxWorkers :
       fetch_multiple_urls(urls, max_workers) /\ FetchFrame
  \/ FetchStep

SpecFetch == Init /\ [][NextFetch]_vars

\* Every thread is scheduled, and every request completes or times out.
SpecFetchFair == SpecFetch /\ WF_vars(FetchStep)

(***************************************************************************)
(* SpecDb: the documents table of DatabaseManager.  db_documents holds the *)
(* rows in the order of their insertion; save_document and                 *)
(* search_documents are the two statements the class runs on it.           *)
(***************************************************************************)

\* The most rows the table grows to and the latest modification time.
MaxRows == 3

MaxTime == 2

DbNameInputs == {<<"a">>, <<"A", "b">>}

DbContentInputs == {<<>>, <<"b">>}

QueryInputs == {<<>>, <<"a">>, <<"B">>, <<"a", "a">>, <<"%">>, <<"_", "b">>}

\* limit: int = 50
DefaultLimit == 50

LimitInputs == {-1, 0, 1, 2, DefaultLimit}

\* id INTEGER PRIMARY KEY AUTOINCREMENT: one more than the largest id the
\* table ever held (no row is ever deleted).
NextRowId == Len(db_documents) + 1

\* The values of one INSERT; tags is ','.join(doc.tags) of a document whose
\* tags nothing ever fills.
Row(id, doc, modified_at) ==
  [id |-> id, name |-> doc.name, content |-> doc.content,
   modified_at |-> modified_at, tags |-> <<>>,
   checksum |-> doc.checksum, version |-> doc.version]

\* The positions of the rows an INSERT OR REPLACE conflicts with: those that
\* share a value in a PRIMARY KEY or UNIQUE column with the new row.  The
\* only such column of the table is id, and the statement names no id.
ConflictingRows(row) ==
  {i \in DOMAIN db_documents : db_documents[i].id = row.id}

\* The rows of a table without those at the given positions.
RECURSIVE Without(_, _)
Without(rows, gone) ==
  IF rows = <<>> THEN <<>>
  ELSE LET rest == Without(SubSeq(rows, 1, Len(rows) - 1), gone)
       IN IF Len(rows) \in gone THEN rest ELSE Append(rest, rows[Len(rows)])

\* save_document(doc): INSERT OR REPLACE deletes the conflicting rows and
\* inserts the new one; the call returns cursor.lastrowid.
save_document(doc, modified_at) ==
  /\ Len(db_documents) < MaxRows
  /\ LET row == Row(NextRowId, doc, modified_at)
     IN /\ db_documents' = Append(Without(db_documents, ConflictingRows(row)), row)
        /\ out' = Msg("lastrowid", row.id)

\* text LIKE pattern in SQLite: % stands for any characters, _ for any one
\* character, and every other character for itself, the case of ASCII
\* letters ignored.
RECURSIVE LikeMatch(_, _)
LikeMatch(pattern, text) ==
  IF pattern = <<>> THEN text = <<>>
  ELSE IF pattern[1] = "%"
  THEN \E k \in 0 .. Len(text) : LikeMatch(Tail(pattern), SubSeq(text, k + 1, Len(text)))
  ELSE IF text = <<>> THEN FALSE
  ELSE /\ pattern[1] = "_" \/ LowerChar(pattern[1]) = LowerChar(text[1])
       /\ LikeMatch(Tail(pattern), Tail(text))

\* Like escaping the query: a match of the query as it is written.
LikeLiteral(text, query) == Contains(Lower(text), Lower(query))

\* text LIKE ? with the parameter f'%{query}%'.
Like(text, query) == LikeMatch(<<"%">> \o query \o <<"%">>, text)

\* WHERE content LIKE ? OR name LIKE ? OR tags LIKE ?
Matching(query) ==
  {i \in DOMAIN db_documents :
     \/ Like(db_documents[i].content, query)
     \/ Like(db_documents[i].name, query)
     \/ Like(db_documents[i].tags, query)}

\* ORDER BY modified_at DESC: the orders of a set of rows SQLite may
\* produce (rows of equal modified_at in any order).
Orderings(positions) ==
  {f \in [1 .. Cardinality(positions) -> positions] :
     /\ \A i, j \in DOMAIN f : i # j => f[i] # f[j]
     /\ \A i, j \in DOMAIN f :
          i < j => db_documents[f[i]].modified_at >= db_documents[f[j]].modified_at}

\* A SELECT without its LIMIT.
Unlimited(order, limit) == order

\* LIMIT ?: the first limit rows, and all of them when limit is negative.
Limited(order, limit) ==
  IF limit < 0 THEN order
  ELSE SubSeq(order, 1, IF limit < Len(order) THEN limit ELSE Len(order))

\* search_documents(query, limit): the rows the SELECT returns.
search_documents(query, limit) ==
  /\ db_documents' = db_documents
  /\ \E order \in Orderings(Matching(query)) :
       out' = [msg |-> "search", query |-> query, limit |-> limit,
               rows |-> [k \in DOMAIN Limited(order, limit) |->
                           db_documents[Limited(order, limit)[k]]]]

\* The session, the history, the batch of fetches and the static functions
\* take no part in the statements.
DbFrame ==
  UNCHANGED <<documents, current_doc_index, doc_ids, worker, history, fetch, args, hooks, loop>>

NextDb ==
  \/ \E name \in DbNameInputs, content \in DbContentInputs, modified_at \in 1 .. MaxTime :
       save_document(DocumentTab(name, content, NoPath), modified_at) /\ DbFrame
  \/ \E query \in QueryInputs, limit \in LimitInputs :
       search_documents(query, limit) /\ DbFrame

SpecDb == Init /\ [][NextDb]_vars

(***************************************************************************)
(* SpecHistory: the content history.  load_history reads whatever list the *)
(* history file holds when the program starts; save_history records one    *)
(* entry (its write of the file changes nothing the program reads again).  *)
(***************************************************************************)

\* The most entries recorded in one run.
MaxSaves == 3

\* self.history[:100]
HistoryLimit == 100

\* time.time() when the program starts; the clock advances between entries.
StartTime == 1000

HistoryDataInputs == {<<>>, <<"a">>, <<"b">>}

\* The lengths of the list in the history file: none, one entry, one below
\* the limit, the limit, and a file longer than the limit.
LoadedLengths == {0, 1, HistoryLimit - 1, HistoryLimit, HistoryLimit + 1}

\* {"data": data, "kind": kind, "timestamp": time.time()}
HistoryEntry(data, kind, timestamp) ==
  [data |-> data, kind |-> kind, timestamp |-> timestamp]

\* load_history: the list json.load returns, newest entry first.
LoadedHistory(n) ==
  [i \in 1 .. n |-> HistoryEntry(<<"a">>, "copied", StartTime - i)]

\* time.time() of the next entry.
Now == IF history = <<>> \/ history[1].timestamp < StartTime
       THEN StartTime + 1
       ELSE history[1].timestamp + 1

\* list[:n]
Take(list, n) == SubSeq(list, 1, IF n < Len(list) THEN n ELSE Len(list))

\* save_history cutting the list before it inserts.
save_history_cutting_first(data, kind) ==
  /\ Now <= StartTime + MaxSaves
  /\ history' = <<HistoryEntry(data, kind, Now)>> \o Take(history, HistoryLimit)

\* save_history(data, kind): history.insert(0, entry), then
\* history = history[:100].
save_history(data, kind) ==
  /\ Now <= StartTime + MaxSaves
  /\ history' = Take(<<HistoryEntry(data, kind, Now)>> \o history, HistoryLimit)

\* Recording an entry leaves the documents, the table and the rest alone.
HistoryFrame ==
  UNCHANGED <<documents, current_doc_index, out, doc_ids, worker, db_documents, fetch, args, hooks, loop>>

InitHistory ==
  /\ documents = <<DocumentTab("Untitled", <<>>, NoPath)>>
  /\ current_doc_index = 0
  /\ out = Msg("Banner", 0)
  /\ doc_ids = <<1>>
  /\ worker = WorkerStart
  /\ \E n \in LoadedLengths : history = LoadedHistory(n)
  /\ db_documents = <<>>
  /\ fetch = NoFetch
  /\ hooks = NoHooks
  /\ loop = LoopStart
  /\ args = NoArgs

NextHistory ==
  \E data \in HistoryDataInputs : save_history(data, "copied") /\ HistoryFrame

SpecHistory == InitHistory /\ [][NextHistory]_vars

(***************************************************************************)
(* SpecDetect: TextProcessor.detect_language.  A content is a sequence of  *)
(* lines taken from a small vocabulary; what each regular expression       *)
(* matches is tabulated for the lines of the vocabulary (no expression     *)
(* matches across two of these lines).                                     *)
(***************************************************************************)

\* The most lines of a content.
MaxLines == 3

LineInputs ==
  {"hello",
   "import os",
   "def f(x):",
   "const x",
   "<DIV>",
   "# title",
   "SELECT a",
   "echo $x",
   "- item",
   "<!DOCTYPE html>"}

DetectContents == UNION {[1 .. n -> LineInputs] : n \in 0 .. MaxLines}

\* The table of detect_language, in the order the dict holds it.
patterns ==
  <<
     [lang |-> "python",
      regexes |-> <<"#!/usr/bin/env python", "import \\w+", "def \\w+\\(", "class \\w+:">>],
     [lang |-> "javascript",
      regexes |-> <<"function \\w+\\(", "const \\w+", "=> {", "console\\.log">>],
     [lang |-> "html",
      regexes |-> <<"<html>", "<div", "<script>", "<!DOCTYPE">>],
     [lang |-> "css",
      regexes |-> <<"\\w+\\s*{", "@media", "#\\w+", "\\.\\w+">>],
     [lang |-> "markdown",
      regexes |-> <<"^#+\\s", "\\[.*\\]\\(.*\\)", "^\\*\\s", "^-\\s">>],
     [lang |-> "json",
      regexes |-> <<"^\\s*{", "\"\\w+\"\\s*:", "\\[\\s*{">>],
     [lang |-> "xml",
      regexes |-> <<"<\\?xml", "<\\w+[^>]*>", "</\\w+>">>],
     [lang |-> "sql",
      regexes |-> <<"SELECT\\s+", "INSERT\\s+INTO", "UPDATE\\s+", "CREATE\\s+TABLE">>],
     [lang |-> "bash",
      regexes |-> <<"#!/bin/bash", "#!/bin/sh", "\\$\\w+", "if \\[">>]
  >>

\* str.lower() of a line of the vocabulary.
LowerLine(line) ==
  CASE line = "<DIV>" -> "<div>"
    [] line = "SELECT a" -> "select a"
    [] line = "<!DOCTYPE html>" -> "<!doctype html>"
    [] OTHER -> line

\* content.lower()
LowerLines(content) == [i \in DOMAIN content |-> LowerLine(content[i])]

\* The lines of the (lowered) vocabulary in which re.search finds a pattern.
MatchedLines(pattern) ==
  CASE pattern = "import \\w+" -> {"import os"}
    [] pattern = "def \\w+\\(" -> {"def f(x):"}
    [] pattern = "const \\w+" -> {"const x"}
    [] pattern = "<div" -> {"<div>"}
    [] pattern = "^#+\\s" -> {"# title"}
    [] pattern = "^-\\s" -> {"- item"}
    [] pattern = "<\\w+[^>]*>" -> {"<div>"}
    [] pattern = "\\$\\w+" -> {"echo $x"}
    [] OTHER -> {}

\* re.search(pattern, content_lower, re.MULTILINE) finds a match.
re_search(pattern, content_lower) ==
  \E i \in DOMAIN content_lower : content_lower[i] \in MatchedLines(pattern)

\* score: one for every pattern of a language that is found.
Score(regexes, content_lower) ==
  Cardinality({k \in DOMAIN regexes : re_search(regexes[k], content_lower)})

\* scores.items(), in the order of the table.
ScoreItems(content) ==
  [k \in DOMAIN patterns |->
     [lang |-> patterns[k].lang,
      score |-> Score(patterns[k].regexes, LowerLines(content))]]

\* A max that keeps the last of the largest items.
RECURSIVE LastMax(_, _)
LastMax(items, n) ==
  IF n = 1 THEN items[1]
  ELSE LET best == LastMax(items, n - 1)
       IN IF items[n].score >= best.score THEN items[n] ELSE best

\* max(items, key=score) over the first n items: the first of the largest.
RECURSIVE FirstMax(_, _)
FirstMax(items, n) ==
  IF n = 1 THEN items[1]
  ELSE LET best == FirstMax(items, n - 1)
       IN IF items[n].score > best.score THEN items[n] ELSE best

\* detect_language(content)
detect_language(content) ==
  LET items == ScoreItems(content)
  IN IF FirstMax(items, Len(items)).score > 0
     THEN FirstMax(items, Len(items)).lang
     ELSE "text"

\* run, command "analyze": the language of a content is printed.
analyze ==
  /\ args.fn = "detect_language"
  /\ out' = [msg |-> "Language", language |-> detect_language(args.content)]
  /\ UNCHANGED <<documents, current_doc_index, doc_ids, worker, history, db_documents, fetch, args, hooks, loop>>

InitDetect ==
  /\ documents = <<DocumentTab("Untitled", <<>>, NoPath)>>
  /\ current_doc_index = 0
  /\ out = Msg("Banner", 0)
  /\ doc_ids = <<1>>
  /\ worker = WorkerStart
  /\ history = <<>>
  /\ db_documents = <<>>
  /\ fetch = NoFetch
  /\ hooks = NoHooks
  /\ loop = LoopStart
  /\ \E content \in DetectContents : args = [fn |-> "detect_language", content |-> content]

NextDetect == analyze

SpecDetect == InitDetect /\ [][NextDetect]_vars

(***************************************************************************)
(* SpecCrypto: CryptoManager.encrypt_content and decrypt_content.  A text  *)
(* is the sequence of the code points of its characters.                   *)
(***************************************************************************)

\* The longest content and the longest password.
MaxTextLen == 2

MaxPasswordLen == 2

\* a, z, A, Z, e-acute, E-acute, the multiplication sign, a space.
CodePointInputs == {97, 122, 65, 90, 233, 201, 215, 32}

\* a, b, z.
PasswordCodePointInputs == {97, 98, 122}

CryptoContents == UNION {[1 .. n -> CodePointInputs] : n \in 0 .. MaxTextLen}

CryptoPasswords == UNION {[1 .. n -> PasswordCodePointInputs] : n \in 0 .. MaxPasswordLen}

\* str.islower() and str.isupper() of one character below U+0100.
IsLower(c) ==
  \/ c \in 97 .. 122
  \/ c \in {170, 181, 186}
  \/ c \in 223 .. 246
  \/ c \in 248 .. 255

IsUpper(c) ==
  \/ c \in 65 .. 90
  \/ c \in 192 .. 214
  \/ c \in 216 .. 222

\* sum(ord(c) for c in password) % 26
RECURSIVE SumOrd(_)
SumOrd(password) ==
  IF password = <<>> THEN 0
  ELSE password[1] + SumOrd(SubSeq(password, 2, Len(password)))

Shift(password) == SumOrd(password) % 26

\* The character encrypt_content puts for c.
EncryptChar(c, shift) ==
  IF IsLower(c) THEN ((c - 97 + shift) % 26) + 97
  ELSE IF IsUpper(c) THEN ((c - 65 + shift) % 26) + 65
  ELSE c

\* The character decrypt_content puts for c.
DecryptChar(c, shift) ==
  IF IsLower(c) THEN ((c - 97 - shift) % 26) + 97
  ELSE IF IsUpper(c) THEN ((c - 65 - shift) % 26) + 65
  ELSE c

\* str.encode(): UTF-8, one byte below U+0080 and two below U+0800.
RECURSIVE Utf8Encode(_)
Utf8Encode(text) ==
  IF text = <<>> THEN <<>>
  ELSE (IF text[1] < 128 THEN <<text[1]>>
        ELSE <<192 + (text[1] \div 64), 128 + (text[1] % 64)>>)
       \o Utf8Encode(SubSeq(text, 2, Len(text)))

\* bytes.decode() raises on bytes that are not UTF-8.
RECURSIVE Utf8Valid(_)
Utf8Valid(bytes) ==
  IF bytes = <<>> THEN TRUE
  ELSE IF bytes[1] < 128 THEN Utf8Valid(SubSeq(bytes, 2, Len(bytes)))
  ELSE /\ bytes[1] \in 194 .. 223
       /\ Len(bytes) >= 2
       /\ bytes[2] \in 128 .. 191
       /\ Utf8Valid(SubSeq(bytes, 3, Len(bytes)))

\* bytes.decode() of valid UTF-8.
RECURSIVE Utf8Decode(_)
Utf8Decode(bytes) ==
  IF bytes = <<>> THEN <<>>
  ELSE IF bytes[1] < 128
       THEN <<bytes[1]>> \o Utf8Decode(SubSeq(bytes, 2, Len(bytes)))
       ELSE <<(bytes[1] - 192) * 64 + (bytes[2] - 128)>>
            \o Utf8Decode(SubSeq(bytes, 3, Len(bytes)))

\* The character of the base64 alphabet for a group of six bits, and '='.
B64Char(six) ==
  IF six < 26 THEN 65 + six
  ELSE IF six < 52 THEN 97 + (six - 26)
  ELSE IF six < 62 THEN 48 + (six - 52)
  ELSE IF six = 62 THEN 43
  ELSE 47

B64Pad == 61

\* The six bits a character of the base64 alphabet stands for.
B64Value(c) ==
  IF c \in 65 .. 90 THEN c - 65
  ELSE IF c \in 97 .. 122 THEN c - 97 + 26
  ELSE IF c \in 48 .. 57 THEN c - 48 + 52
  ELSE IF c = 43 THEN 62
  ELSE 63

\* base64.b64encode(bytes).decode(): three bytes become four characters,
\* the last group is padded with '='.
RECURSIVE b64encode(_)
b64encode(b) ==
  IF b = <<>> THEN <<>>
  ELSE IF Len(b) = 1
  THEN <<B64Char(b[1] \div 4), B64Char((b[1] % 4) * 16), B64Pad, B64Pad>>
  ELSE IF Len(b) = 2
  THEN <<B64Char(b[1] \div 4), B64Char((b[1] % 4) * 16 + (b[2] \div 16)),
         B64Char((b[2] % 16) * 4), B64Pad>>
  ELSE <<B64Char(b[1] \div 4), B64Char((b[1] % 4) * 16 + (b[2] \div 16)),
         B64Char((b[2] % 16) * 4 + (b[3] \div 64)), B64Char(b[3] % 64)>>
       \o b64encode(SubSeq(b, 4, Len(b)))

\* The characters of the base64 alphabet.
IsB64Char(c) ==
  \/ c \in 65 .. 90
  \/ c \in 97 .. 122
  \/ c \in 48 .. 57
  \/ c \in {43, 47}

\* binascii.a2b_base64 as b64decode calls it (not strict): characters
\* outside the alphabet are skipped, every four characters give three
\* bytes, padding that completes a group ends the input, and input that
\* ends inside a group is an error.
RECURSIVE a2b_base64(_, _, _, _, _)
a2b_base64(t, quad_pos, leftchar, pads, decoded) ==
  IF t = <<>> THEN [ok |-> quad_pos = 0, bytes |-> decoded]
  ELSE LET rest == SubSeq(t, 2, Len(t))
           v == B64Value(t[1])
       IN IF t[1] = B64Pad
          THEN IF quad_pos >= 2
               THEN IF quad_pos + pads + 1 >= 4
                    THEN [ok |-> TRUE, bytes |-> decoded]
                    ELSE a2b_base64(rest, quad_pos, leftchar, pads + 1, decoded)
               ELSE a2b_base64(rest, quad_pos, leftchar, pads, decoded)
          ELSE IF ~IsB64Char(t[1])
          THEN a2b_base64(rest, quad_pos, leftchar, pads, decoded)
          ELSE IF quad_pos = 0
          THEN a2b_base64(rest, 1, v, 0, decoded)
          ELSE IF quad_pos = 1
          THEN a2b_base64(rest, 2, v % 16, 0, Append(decoded, leftchar * 4 + (v \div 16)))
          ELSE IF quad_pos = 2
          THEN a2b_base64(rest, 3, v % 4, 0, Append(decoded, leftchar * 16 + (v \div 4)))
          ELSE a2b_base64(rest, 0, 0, 0, Append(decoded, leftchar * 64 + v))

\* base64.b64decode(text.encode()): the bytes, or ok false where it raises
\* binascii.Error.
b64decode(t) == a2b_base64(Utf8Encode(t), 0, 0, 0, <<>>)

\* "[Decryption failed]"
DecryptionFailed == <<91, 68, 101, 99, 114, 121, 112, 116, 105, 111, 110, 32, 102, 97, 105, 108, 101, 100, 93>>

\* encrypt_content(content, password)
encrypt_content(content, password) ==
  LET shift == Shift(password)
      encrypted == [i \in DOMAIN content |-> EncryptChar(content[i], shift)]
  IN b64encode(Utf8Encode(encrypted))

\* What stands for an exception leaving a function.
Raised == <<-1>>

\* The body of the try statement of decrypt_content: the text it returns,
\* or Raised where b64decode or bytes.decode() raises.
TryDecrypt(encrypted, password) ==
  LET shift == Shift(password)
      transport == b64decode(encrypted)
  IN IF transport.ok /\ Utf8Valid(transport.bytes)
     THEN LET decoded == Utf8Decode(transport.bytes)
          IN [i \in DOMAIN decoded |-> DecryptChar(decoded[i], shift)]
     ELSE Raised

\* decrypt_content without its except clause.
decrypt_content_uncaught(encrypted, password) == TryDecrypt(encrypted, password)

\* decrypt_content(encrypted, password): the try statement, and
\* "[Decryption failed]" from the bare except.
decrypt_content(encrypted, password) ==
  IF TryDecrypt(encrypted, password) = Raised
  THEN DecryptionFailed
  ELSE TryDecrypt(encrypted, password)

\* The two functions take no part in the session.
CryptoFrame ==
  UNCHANGED <<documents, current_doc_index, doc_ids, worker, history, db_documents, fetch, args, hooks, loop>>

\* A call of encrypt_content on the content and the password at hand.
encrypt ==
  /\ args.fn = "crypto"
  /\ out' = [msg |-> "encrypted",
             data |-> encrypt_content(args.content, args.password)]
  /\ CryptoFrame

\* A call of decrypt_content on what encrypt_content returned.
decrypt(password) ==
  /\ args.fn = "crypto"
  /\ out.msg = "encrypted"
  /\ out' = [msg |-> "decrypted", password |-> password,
             text |-> decrypt_content(out.data, password)]
  /\ CryptoFrame

InitCrypto ==
  /\ documents = <<DocumentTab("Untitled", <<>>, NoPath)>>
  /\ current_doc_index = 0
  /\ out = Msg("Banner", 0)
  /\ doc_ids = <<1>>
  /\ worker = WorkerStart
  /\ history = <<>>
  /\ db_documents = <<>>
  /\ fetch = NoFetch
  /\ hooks = NoHooks
  /\ loop = LoopStart
  /\ \E content \in CryptoContents, password \in CryptoPasswords :
       args = [fn |-> "crypto", content |-> content, password |-> password]

NextCrypto ==
  \/ encrypt
  \/ \E password \in CryptoPasswords : decrypt(password)

SpecCrypto == InitCrypto /\ [][NextCrypto]_vars

(***************************************************************************)
(* SpecDecrypt: decrypt_content on strings that encrypt_content need not   *)
(* have returned.                                                          *)
(***************************************************************************)

\* The longest string handed to decrypt_content.
MaxCipherLen == 4

\* A, Q, w, /, =, an exclamation mark, e-acute.
CipherCodePointInputs == {65, 81, 119, 47, 61, 33, 233}

CipherInputs == UNION {[1 .. n -> CipherCodePointInputs] : n \in 0 .. MaxCipherLen}

\* The empty password and b.
DecryptPasswordInputs == {<<>>, <<98>>}

\* A call of decrypt_content on the string and the password at hand.
decrypt_any ==
  /\ args.fn = "decrypt"
  /\ out' = [msg |-> "decrypted", password |-> args.password,
             text |-> decrypt_content(args.encrypted, args.password)]
  /\ CryptoFrame

InitDecrypt ==
  /\ documents = <<DocumentTab("Untitled", <<>>, NoPath)>>
  /\ current_doc_index = 0
  /\ out = Msg("Banner", 0)
  /\ doc_ids = <<1>>
  /\ worker = WorkerStart
  /\ history = <<>>
  /\ db_documents = <<>>
  /\ fetch = NoFetch
  /\ hooks = NoHooks
  /\ loop = LoopStart
  /\ \E encrypted \in CipherInputs, password \in DecryptPasswordInputs :
       args = [fn |-> "decrypt", encrypted |-> encrypted, password |-> password]

NextDecrypt == decrypt_any

SpecDecrypt == InitDecrypt /\ [][NextDecrypt]_vars

(***************************************************************************)
(* SpecCursor: the cursor among more documents than Spec holds.  It starts *)
(* after the commands "new" that make the list MaxCursorDocs long and      *)
(* follows the operations that add a document, switch and close.           *)
(***************************************************************************)

\* The documents the list starts with.
MaxCursorDocs == 3

CursorNumberInputs == 0 .. (MaxCursorDocs + 1)

\* The list after __init__ and n - 1 commands "new".
CreatedDocuments(n) ==
  [i \in 1 .. n |->
     DocumentTab(IF i = 1 THEN "Untitled" ELSE NumberedName("Untitled-", i), <<>>, NoPath)]

InitCursor ==
  /\ documents = CreatedDocuments(MaxCursorDocs)
  /\ current_doc_index = MaxCursorDocs - 1
  /\ out = Msg("Created", 0)
  /\ doc_ids = [i \in 1 .. MaxCursorDocs |-> i]
  /\ worker = WorkerStart
  /\ AsideStart

NextCursor ==
  \/ new_document /\ WorkerIdle
  \/ \E path \in Paths, exists \in BOOLEAN, read_ok \in BOOLEAN, content \in FileInputs :
       open_file(path, exists, read_ok, content) /\ WorkerIdle
  \/ \E content \in ClipboardInputs : paste_from_clipboard(content) /\ WorkerIdle
  \/ \E fetched_ok \in BOOLEAN, content \in FetchInputs : fetch_url(fetched_ok, content) /\ WorkerIdle
  \/ \E index \in CursorNumberInputs : switch_document(index) /\ WorkerIdle
  \/ switch_document_not_a_number /\ WorkerIdle
  \/ \E confirmed \in BOOLEAN : close_document(FALSE, 0, confirmed) /\ WorkerIdle
  \/ \E index \in CursorNumberInputs, confirmed \in BOOLEAN :
       close_document(TRUE, index, confirmed) /\ WorkerIdle
  \/ close_document_not_a_number /\ WorkerIdle

SpecCursor == InitCursor /\ [][NextCursor]_vars

(***************************************************************************)
(* SpecCheckpoint: the rows a tick of the auto-save worker writes to the   *)
(* documents table, between the commands that create and edit documents.   *)
(* The tick is one step, as in Spec.  The timestamps of a document are not *)
(* modelled: modified_at stands for the one the rows of a tick carry.      *)
(***************************************************************************)

\* The table after self.db.save_document(doc) for the documents at the
\* positions in saved, from position i on, in the order of the list; each
\* INSERT gets a fresh id and so replaces nothing.
RECURSIVE SavedBy(_, _, _, _)
SavedBy(table, i, saved, modified_at) ==
  IF i > Len(documents) THEN table
  ELSE SavedBy(IF (i - 1) \in saved
               THEN Append(table, Row(Len(table) + 1, documents[i], modified_at))
               ELSE table,
               i + 1, saved, modified_at)

\* perform_auto_save with its database writes: failed are the positions
\* whose backup write raises, db_failed those whose save_document raises.
checkpoint_tick(failed, db_failed, modified_at) ==
  /\ Len(db_documents) + Cardinality(AutoSaveEligible \ (failed \cup db_failed)) <= MaxRows
  /\ perform_auto_save(failed)
  /\ db_documents' = SavedBy(db_documents, 1, AutoSaveEligible \ (failed \cup db_failed), modified_at)
  /\ UNCHANGED <<doc_ids, worker, history, fetch, args, hooks, loop>>

NextCheckpoint ==
  \/ new_document /\ WorkerIdle
  \/ \E new_content \in EditInputs : edit_document(new_content) /\ WorkerIdle
  \/ \E index \in NumberInputs : switch_document(index) /\ WorkerIdle
  \/ \E failed \in SUBSET (0 .. (MaxDocs - 1)), db_failed \in SUBSET (0 .. (MaxDocs - 1)),
        modified_at \in 1 .. MaxTime :
       checkpoint_tick(failed, db_failed, modified_at)

SpecCheckpoint == Init /\ [][NextCheckpoint]_vars

(***************************************************************************)
(* SpecHooks: the PluginManager.  A callback is known by its id and by     *)
(* whether a call of it raises an Exception.                               *)
(***************************************************************************)
MaxHooks == 3

CallbackInputs ==
  {[id |-> 1, fails |-> FALSE], [id |-> 2, fails |-> TRUE], [id |-> 3, fails |-> TRUE]}

HooksFrame ==
  UNCHANGED <<documents, current_doc_index, doc_ids, worker, history, db_documents, fetch,
              args, loop>>

add_hook(hook_name, callback) ==
  /\ Len(hooks[hook_name]) < MaxHooks
  /\ hooks' = [hooks EXCEPT ![hook_name] = Append(@, callback)]
  /\ out' = [msg |-> "added", hook_name |-> hook_name]
  /\ HooksFrame

\* The loop of trigger_hook without its try: the first callback that raises
\* ends it, and the exception reaches the caller.
RECURSIVE DispatchUncaught(_, _, _, _)
DispatchUncaught(callbacks, i, called, printed) ==
  IF i > Len(callbacks) THEN [called |-> called, printed |-> printed, raised |-> FALSE]
  ELSE IF callbacks[i].fails
       THEN [called |-> Append(called, callbacks[i]), printed |-> printed, raised |-> TRUE]
       ELSE DispatchUncaught(callbacks, i + 1, Append(called, callbacks[i]), printed)

\* The loop of trigger_hook from the i-th callback on: called are the
\* callbacks called so far, printed those whose error was printed.
RECURSIVE Dispatch(_, _, _, _)
Dispatch(callbacks, i, called, printed) ==
  IF i > Len(callbacks) THEN [called |-> called, printed |-> printed, raised |-> FALSE]
  ELSE Dispatch(callbacks, i + 1, Append(called, callbacks[i]),
                IF callbacks[i].fails THEN Append(printed, callbacks[i]) ELSE printed)

trigger_hook(hook_name) ==
  /\ out' = [msg |-> "triggered", hook_name |-> hook_name]
             @@ Dispatch(hooks[hook_name], 1, <<>>, <<>>)
  /\ UNCHANGED hooks
  /\ HooksFrame

NextHooks ==
  \/ \E hook_name \in HookNames, callback \in CallbackInputs : add_hook(hook_name, callback)
  \/ \E hook_name \in HookNames : trigger_hook(hook_name)

SpecHooks == Init /\ [][NextHooks]_vars

(***************************************************************************)
(* SpecRun: the loop of run.  loop is where it stands: "prompt" at the     *)
(* input of a command, "confirm" at the input of the answer to "Quit       *)
(* anyway?", "exited" after its break.  A command is one step taken at the *)
(* prompt; end of input and an interrupt can meet either input.            *)
(***************************************************************************)
ResponseInputs == {<<"y">>, <<"Y">>, <<"n">>, <<>>, <<"y", "e", "s">>}

RunFrame ==
  UNCHANGED <<documents, current_doc_index, doc_ids, worker, history, db_documents, fetch,
              args, hooks>>

\* modified_docs of the quit command, as positions of the list.
modified_docs == {i \in DOMAIN documents : documents[i].modified}

\* What run prints when it leaves: via is the way out, asked whether the
\* unsaved documents were listed and the question put, confirmed whether
\* the answer was a yes.
Goodbye(via, asked, confirmed) ==
  [msg |-> "Goodbye", via |-> via, asked |-> asked, confirmed |-> confirmed]

\* run without its except Exception clause: the exception leaves run.
AfterExceptionUncaught == "exited"

\* Where the loop stands after except Exception has printed the error.
AfterException == "prompt"

\* The commands quit, q and exit, up to the question.
quit ==
  /\ loop = "prompt"
  /\ IF modified_docs = {}
     THEN out' = Goodbye("quit", FALSE, FALSE) /\ loop' = "exited"
     ELSE out' = Msg("UnsavedChanges", Cardinality(modified_docs)) /\ loop' = "confirm"
  /\ RunFrame

\* The answer to "Quit anyway?".
quit_answer(response) ==
  /\ loop = "confirm"
  /\ IF Lower(response) # <<"y">>
     THEN loop' = "prompt" /\ UNCHANGED out
     ELSE out' = Goodbye("quit", TRUE, TRUE) /\ loop' = "exited"
  /\ RunFrame

\* input raises EOFError, at the prompt or at the question.
end_of_input ==
  /\ loop \in {"prompt", "confirm"}
  /\ out' = Goodbye("EOFError", loop = "confirm", FALSE)
  /\ loop' = "exited"
  /\ RunFrame

\* input raises KeyboardInterrupt, at the prompt or at the question.
interrupt ==
  /\ loop \in {"prompt", "confirm"}
  /\ out' = Msg("UseQuit", 0)
  /\ loop' = "prompt"
  /\ RunFrame

\* The command backup: write_ok is whether write_text returns; when it
\* raises, the exception reaches the handlers of the loop.
backup(write_ok) ==
  /\ loop = "prompt"
  /\ IF write_ok
     THEN out' = Msg("BackupCreated", 0) /\ UNCHANGED loop
     ELSE out' = Msg("Error", 0) /\ loop' = AfterException
  /\ RunFrame

AtPrompt == loop = "prompt"

NextRun ==
  \/ AtPrompt /\ new_document /\ WorkerIdle
  \/ \E new_content \in EditInputs : AtPrompt /\ edit_document(new_content) /\ WorkerIdle
  \/ \E filename \in Paths \cup {NoPath}, typed \in TypedInputs, write_ok \in BOOLEAN :
       AtPrompt /\ save_file(filename, typed, write_ok) /\ WorkerIdle
  \/ \E index \in NumberInputs : AtPrompt /\ switch_document(index) /\ WorkerIdle
  \/ \E confirmed \in BOOLEAN : AtPrompt /\ close_document(FALSE, 0, confirmed) /\ WorkerIdle
  \/ \E write_ok \in BOOLEAN : backup(write_ok)
  \/ quit
  \/ \E response \in ResponseInputs : quit_answer(response)
  \/ end_of_input
  \/ interrupt

SpecRun == Init /\ [][NextRun]_vars

(***************************************************************************)
(* Vocabulary of the properties.                                           *)
(***************************************************************************)

Positions == 1 .. Len(documents)

\* This step is a save_file whose write succeeded.
SuccessfulSaveStep ==
  \E filename \in Paths \cup {NoPath}, typed \in TypedInputs :
    /\ SaveTarget(get_current_document, filename, typed) # NoPath
    /\ save_file(filename, typed, TRUE)

\* This step removed exactly one document and left the others as they were,
\* in their order.
RemovedOne == \E k \in 0 .. (Len(documents) - 1) : documents' = Pop(documents, k)

(***************************************************************************)
(* C1.  For every document in the store, the checksum is the hash of the   *)
(* document's current content (it is recomputed on every content           *)
(* mutation and is never stale).                                           *)
(***************************************************************************)
C1_ChecksumIsHashOfContent ==
  \A i \in Positions : documents[i].checksum = Md5(Encode(documents[i].content))

(***************************************************************************)
(* C2.  No step other than a successful save of that document turns a      *)
(* document's modified flag from true to false: documents that stay keep a *)
(* true flag through edit, replace, snippet insert, find, switch, a failed *)
(* save, a tick of the auto-save worker, and the closing or adding of      *)
(* another document.                                                       *)
(***************************************************************************)
C2_OnlySaveClearsModified ==
  [][/\ Len(documents') >= Len(documents) =>
          \A i \in Positions :
            (documents[i].modified /\ ~documents'[i].modified) =>
              (SuccessfulSaveStep /\ i = CurrentIndex + 1)
     /\ Len(documents') < Len(documents) => RemovedOne]_vars

C2_Witness ==
  /\ out.msg = "AutoSaved"
  /\ out.n > 0
  /\ \E i \in Positions : documents[i].modified

(***************************************************************************)
(* C3.  A successful save sets the document's file_path to the target      *)
(* path, sets modified to false and increments the version by exactly one. *)
(***************************************************************************)
C3_SaveSetsPathClearsModifiedBumpsVersion ==
  [][\A filename \in Paths \cup {NoPath}, typed \in TypedInputs :
       LET path == SaveTarget(get_current_document, filename, typed)
           before == documents[CurrentIndex + 1]
           after == documents'[CurrentIndex + 1]
       IN (path # NoPath /\ save_file(filename, typed, TRUE)) =>
            /\ after.file_path = path
            /\ after.modified = FALSE
            /\ after.version = before.version + 1]_vars

(***************************************************************************)
(* C4.  When the write of a save fails, the failure is reported and the    *)
(* document is exactly as before (modified, content, file_path, name,      *)
(* version), and so are the document list and the cursor.                  *)
(***************************************************************************)
C4_FailedSaveChangesNothing ==
  [][\A filename \in Paths \cup {NoPath}, typed \in TypedInputs :
       (/\ SaveTarget(get_current_document, filename, typed) # NoPath
        /\ save_file(filename, typed, FALSE)) =>
            /\ out'.msg = "ErrorSaving"
            /\ documents' = documents
            /\ current_doc_index' = current_doc_index]_vars

C4_Witness ==
  /\ out.msg = "ErrorSaving"
  /\ get_current_document.modified
  /\ get_current_document.file_path = NoPath

(***************************************************************************)
(* C5.  No step other than a successful save of that document changes a    *)
(* document's version: edit, replace, snippet insert, switch, close and a  *)
(* tick of the auto-save worker leave it as it was.                        *)
(***************************************************************************)
C5_VersionChangesOnlyOnSave ==
  [][/\ Len(documents') >= Len(documents) =>
          \A i \in Positions :
            documents'[i].version # documents[i].version =>
              (SuccessfulSaveStep /\ i = CurrentIndex + 1)
     /\ Len(documents') < Len(documents) => RemovedOne]_vars

C5_Witness ==
  /\ out.msg = "Updated"
  /\ get_current_document.modified
  /\ get_current_document.version = 1

(***************************************************************************)
(* C6.  As claimed: an edit, for every new content (one equal to the       *)
(* current content included), leaves the document with that content and    *)
(* with modified true.                                                     *)
(***************************************************************************)
C6_EditAlwaysSetsModified ==
  [][\A new_content \in EditInputs :
       (edit_document(new_content) \/ on_text_changed(new_content)) =>
          /\ documents'[CurrentIndex + 1].content = new_content
          /\ documents'[CurrentIndex + 1].modified = TRUE]_vars

(***************************************************************************)
(* C6, amended.  An edit leaves the document with the new content; it sets *)
(* modified to true when the new content differs from the current content  *)
(* and leaves the document, its modified flag included, as it was when the *)
(* new content equals the current content.                                 *)
(***************************************************************************)
C6_EditSetsModifiedWhenContentDiffers ==
  [][\A new_content \in EditInputs :
       (edit_document(new_content) \/ on_text_changed(new_content)) =>
          LET before == documents[CurrentIndex + 1]
              after == documents'[CurrentIndex + 1]
          IN /\ after.content = new_content
             /\ new_content # before.content => after.modified = TRUE
             /\ new_content = before.content => after = before]_vars

C6_Witness ==
  /\ out.msg = "NoChanges"
  /\ ~get_current_document.modified

(***************************************************************************)
(* C7.  In every reachable state and for every document, modified is true  *)
(* if and only if the document's content has been changed since it was     *)
(* last successfully saved (or, never saved, since it was constructed).     *)
(***************************************************************************)
C7_ModifiedIffChangedSinceSave ==
  \A i \in Positions : documents[i].modified = documents[i].changed_since_save

C7_Witness ==
  /\ out.msg = "SnippetInserted"
  /\ get_current_document.changed_since_save
  /\ \E i \in Positions : documents[i].file_path # NoPath /\ ~documents[i].changed_since_save

(***************************************************************************)
(* C8.  close never removes a document whose modified flag is true unless  *)
(* the close was confirmed; when confirmation is refused, the document     *)
(* list, the cursor and the document are unchanged.                        *)
(***************************************************************************)
C8_CloseOfModifiedNeedsConfirmation ==
  [][/\ \A k \in 0 .. (Len(documents) - 1) :
          (documents' = Pop(documents, k) /\ documents[k + 1].modified) =>
             \E has_index \in BOOLEAN, index \in NumberInputs :
               close_document(has_index, index, TRUE)
     /\ \A has_index \in BOOLEAN, index \in NumberInputs :
          LET idx == IF has_index THEN index - 1 ELSE current_doc_index
          IN (/\ close_document(has_index, index, FALSE)
              /\ Len(documents) > 1
              /\ 0 <= idx /\ idx < Len(documents)
              /\ documents[idx + 1].modified) =>
                 /\ out'.msg = "CloseCancelled"
                 /\ documents' = documents
                 /\ current_doc_index' = current_doc_index]_vars

C8_Witness ==
  /\ out.msg = "CloseCancelled"
  /\ Len(documents) >= 2
  /\ \E i \in Positions : documents[i].modified

(***************************************************************************)
(* C9.  close fails whenever only one document remains, so the document    *)
(* list always holds at least one document.                                *)
(***************************************************************************)
C9_CloseKeepsLastDocument ==
  [][/\ Len(documents') >= 1
     /\ (/\ Len(documents) = 1
         /\ \/ \E has_index \in BOOLEAN, index \in NumberInputs, confirmed \in BOOLEAN :
                 close_document(has_index, index, confirmed)
            \/ close_document_not_a_number) =>
           /\ out'.msg = "CannotCloseLast"
           /\ documents' = documents
           /\ current_doc_index' = current_doc_index]_vars

C9_Witness ==
  /\ out.msg = "CannotCloseLast"
  /\ Len(documents) = 1

(***************************************************************************)
(* C10.  As claimed: switch with an index outside [0, len) fails and       *)
(* leaves the cursor and the document list unchanged; with an index inside *)
(* [0, len) it makes that document current and changes nothing else.       *)
(***************************************************************************)
C10_SwitchTakesZeroBasedIndex ==
  [][\A index \in NumberInputs :
       switch_document(index) =>
          /\ documents' = documents
          /\ IF 0 <= index /\ index < Len(documents)
             THEN current_doc_index' = index /\ out'.msg = "Switched"
             ELSE current_doc_index' = current_doc_index /\ out'.msg = "InvalidDocNumber"]_vars

(***************************************************************************)
(* C10, amended.  switch takes the 1-based number of a document: with      *)
(* index - 1 outside [0, len) it fails and leaves the cursor and the       *)
(* document list unchanged; with index - 1 inside [0, len) it makes the    *)
(* document at position index - 1 current and changes nothing else.        *)
(***************************************************************************)
C10_SwitchTakesDocumentNumber ==
  [][\A index \in NumberInputs :
       switch_document(index) =>
          /\ documents' = documents
          /\ IF 0 <= index - 1 /\ index - 1 < Len(documents)
             THEN current_doc_index' = index - 1 /\ out'.msg = "Switched"
             ELSE current_doc_index' = current_doc_index /\ out'.msg = "InvalidDocNumber"]_vars

C10_Witness ==
  /\ out.msg = "Switched"
  /\ current_doc_index = 1
  /\ Len(documents) = 2

\* C11: open_file on a path that does not exist, or whose read raises,
\* reports the failure and adds no document: the list of documents and the
\* cursor are the same after the step as before it.
C11_FailedOpenAddsNothing ==
  [][\A path \in Paths, exists \in BOOLEAN, read_ok \in BOOLEAN, content \in FileInputs :
       (~(exists /\ read_ok) /\ open_file(path, exists, read_ok, content))
         => /\ documents' = documents
            /\ current_doc_index' = current_doc_index
            /\ out'.msg = IF ~exists THEN "FileNotFound" ELSE "ErrorOpening"]_vars

\* A failed open has been reported while two documents are open and the
\* cursor is on the first.
C11_Witness ==
  /\ out.msg \in {"FileNotFound", "ErrorOpening"}
  /\ Len(documents) = 2
  /\ current_doc_index = 0

\* C12: whenever the list of documents grows, it grows by one document put
\* at the end, the documents already there keep their values and their
\* order, and the cursor is on the new document; "new", a successful
\* open_file, a paste of a non-empty clipboard and a successful fetch_url
\* each grow it, and the document "new" adds is empty and not modified.
C12_AddAppendsAndSelects ==
  [][/\ Len(documents') > Len(documents)
         => /\ Len(documents') = Len(documents) + 1
            /\ SubSeq(documents', 1, Len(documents)) = documents
            /\ current_doc_index' = Len(documents') - 1
     /\ new_document
         => /\ Len(documents') = Len(documents) + 1
            /\ documents'[Len(documents')].content = <<>>
            /\ ~documents'[Len(documents')].modified
     /\ \A path \in Paths, content \in FileInputs :
          open_file(path, TRUE, TRUE, content)
            => /\ Len(documents') = Len(documents) + 1
               /\ documents'[Len(documents')].content = content
     /\ \A content \in ClipboardInputs \ {<<>>} :
          paste_from_clipboard(content)
            => /\ Len(documents') = Len(documents) + 1
               /\ documents'[Len(documents')].content = content
     /\ \A content \in FetchInputs :
          fetch_url(TRUE, content)
            => /\ Len(documents') = Len(documents) + 1
               /\ documents'[Len(documents')].content = content]_vars

\* A document has just been created behind a modified first document: it is
\* the last one, empty and unmodified, and the cursor is on it.
C12_Witness ==
  /\ out.msg = "Created"
  /\ Len(documents) = 2
  /\ current_doc_index = 1
  /\ documents[1].modified
  /\ documents[2].content = <<>>
  /\ ~documents[2].modified

\* C13: replace_in_document leaves the content with every non-overlapping
\* occurrence of find_text replaced, and the count it reports is the number
\* of occurrences of find_text in the content it started from, for every
\* pair of find and replacement text, the replacement equal to the find
\* text included.
C13_ReplaceReportsOccurrenceCount ==
  [][\A find_text \in FindTextInputs, replace_text \in ReplaceTextInputs :
       replace_in_document(find_text, replace_text)
         => /\ get_current_document'.content =
                 StrReplace(get_current_document.content, find_text, replace_text)
            /\ out'.n = StrCount(get_current_document.content, find_text)]_vars

\* C14: replace_in_document with a find text that does not occur in the
\* content reports no match (a count of 0) and leaves the document as it
\* was: content, modified, data_raw, checksum and every other field.
C14_ReplaceWithoutMatchChangesNothing ==
  [][\A find_text \in FindTextInputs, replace_text \in ReplaceTextInputs :
       (/\ ~Contains(get_current_document.content, find_text)
        /\ replace_in_document(find_text, replace_text))
         => /\ out' = Msg("NoMatchesReplace", 0)
            /\ documents' = documents
            /\ current_doc_index' = current_doc_index]_vars

\* A replace has just found nothing in a document whose content is not
\* empty and holds no occurrence of any find text.
C14_Witness ==
  /\ out.msg = "NoMatchesReplace"
  /\ get_current_document.content # <<>>
  /\ \A find_text \in FindTextInputs : ~Contains(get_current_document.content, find_text)

\* The lines of the current document, and the numbers of those that hold
\* search_text when the case of the letters is ignored.
C15_Lines == SplitLines(get_current_document.content)

C15_Hits(search_text) ==
  {i \in 1 .. Len(C15_Lines) : Contains(Lower(C15_Lines[i]), Lower(search_text))}

\* What every find step does, whatever text it pairs with a line number:
\* the total is the number of matching lines, the pairs shown are the
\* first ShownLimit of them in ascending line order, the rest is counted,
\* and the documents and the cursor are left alone.
C15_Common(search_text) ==
  LET hits == C15_Hits(search_text)
      shown == out'.shown
  IN /\ out'.n = Cardinality(hits)
     /\ out'.msg = IF hits = {} THEN "NoMatchesFind" ELSE "Found"
     /\ Len(shown) = (IF Cardinality(hits) > ShownLimit THEN ShownLimit ELSE Cardinality(hits))
     /\ out'.more = Cardinality(hits) - Len(shown)
     /\ \A k \in 1 .. Len(shown) :
          /\ shown[k][1] \in hits
          /\ Cardinality({j \in hits : j < shown[k][1]}) = k - 1
     /\ documents' = documents
     /\ current_doc_index' = current_doc_index

\* C15 as stated: find_in_document yields exactly the lines that hold the
\* search text as a case-insensitive substring, as pairs of the 1-based line
\* number and the text of that line, in ascending line order; at most the
\* first 10 are shown, the reported total is the number of matching lines,
\* and the document is not changed.
C15_FindYieldsLineText ==
  [][\A search_text \in FindSearchInputs :
       find_in_document(search_text)
         => /\ C15_Common(search_text)
            /\ \A k \in 1 .. Len(out'.shown) :
                 out'.shown[k][2] = C15_Lines[out'.shown[k][1]]]_vars

\* C15, amended: as above, but the text paired with a line number is the
\* line with its leading and trailing whitespace removed.
C15_FindYieldsStrippedLineText ==
  [][\A search_text \in FindSearchInputs :
       find_in_document(search_text)
         => /\ C15_Common(search_text)
            /\ \A k \in 1 .. Len(out'.shown) :
                 out'.shown[k][2] = Strip(C15_Lines[out'.shown[k][1]])]_vars

\* A find has matched more lines than it shows, in a content whose first
\* line does not match and whose matching lines begin with a blank: the
\* first pair shown is line 2 with its text stripped.
C15_Witness ==
  /\ out.msg = "Found"
  /\ out.n = ShownLimit + 1
  /\ Len(out.shown) = ShownLimit
  /\ out.more = 1
  /\ out.shown[1] = <<2, <<"A">>>>
  /\ C15_Lines[2] = <<" ", "A">>

\* The iterator of the tick is about to yield a document.
TickYields == worker.pc = "iterating" /\ worker.i < Len(documents)

\* The document it is about to yield.
TickNextDocument == documents[worker.i + 1]

C17_TickLeavesDocumentsAlone ==
  [][WorkerNext
       => /\ documents' = documents
          /\ current_doc_index' = current_doc_index
          /\ doc_ids' = doc_ids]_vars

\* The tick has written a backup file whose database save raised, and the
\* document it was written for is in the list, still modified.
C17_Witness ==
  /\ worker.result = "backup_only"
  /\ \E k \in 1 .. Len(documents) :
       /\ doc_ids[k] = worker.doc
       /\ documents[k].modified
       /\ documents[k].content = <<"a">>

\* C18: when write_text or save_document raises for a document, the loop
\* of the tick goes on from the same position, so the documents after it
\* are still reached and those that need it still written; the tick runs to
\* its end; and the worker, once asleep again, begins another tick.
C18_FailureIsSwallowed ==
  /\ [][/\ \A write_ok \in BOOLEAN, db_ok \in BOOLEAN :
            (~(write_ok /\ db_ok) /\ tick_write(write_ok, db_ok))
              => (worker'.pc = "iterating" /\ worker'.i = worker.i)
        /\ (worker.result \in {"failed", "backup_only"} /\ TickYields /\ tick_next)
             => /\ worker'.doc = doc_ids[worker.i + 1]
                /\ worker'.i = worker.i + 1
                /\ NeedsBackup(TickNextDocument) => worker'.pc = "writing"]_vars
  /\ (worker.result \in {"failed", "backup_only"}) ~> (worker.pc = "sleeping")
  /\ (worker.pc = "sleeping") ~> (worker.pc = "iterating")

\* After a write that raised, the same tick is writing the second document.
C18_Witness ==
  /\ worker.result = "failed"
  /\ worker.pc = "writing"
  /\ worker.i = 2
  /\ worker.doc = doc_ids[2]

\* C19: when the document the tick holds was closed after the iterator
\* yielded it and before the try statement ran, the try statement leaves
\* the list as it is (the closed document is not put back) and the loop
\* goes on; and no statement of the tick ever adds an object to the list.
C19_CloseDuringTickIsHarmless ==
  [][/\ \A write_ok \in BOOLEAN, db_ok \in BOOLEAN :
          (worker.doc \notin IdSet /\ tick_write(write_ok, db_ok))
            => /\ documents' = documents
               /\ doc_ids' = doc_ids
               /\ worker'.pc = "iterating"
     /\ WorkerNext
          => /\ IdSet' \subseteq IdSet
             /\ worker'.pc \in {"sleeping", "iterating", "writing"}]_vars

\* The tick is about to write a document that is no longer in the list.
C19_Witness ==
  /\ worker.pc = "writing"
  /\ worker.doc # NoDoc
  /\ worker.doc \notin IdSet

\* C20: when the tick ends, every document that was modified with content
\* to back up when the tick began and is still in the list has been
\* reached by the tick, whatever the interactive thread closed or created
\* meanwhile.
C20_NoEligibleDocumentSkipped ==
  [][(worker.pc = "iterating" /\ worker.i >= Len(documents) /\ tick_next)
       => worker.pending \cap IdSet = {}]_vars

(***************************************************************************)
(* The batch of fetches.                                                   *)
(***************************************************************************)

\* The URLs a batch was called with.
InputUrls == {fetch.urls[k] : k \in 1 .. Len(fetch.urls)}

\* The requests of a batch made for one URL.
RequestsOf(url) == {k \in 1 .. Len(fetch.urls) : fetch.urls[k] = url}

\* C21: the mapping a batch returns has exactly the input URLs as its keys,
\* whatever each request did (response, refused, timed out), in whatever
\* order the requests completed.
C21_KeysAreTheInputUrls ==
  fetch.pc = "returned" => DOMAIN fetch.results = InputUrls

C21_Witness ==
  /\ fetch.pc = "returned"
  /\ Len(fetch.urls) = MaxUrls
  /\ Cardinality(DOMAIN fetch.results) = 2
  /\ \E j, k \in 1 .. Len(fetch.urls) :
       /\ fetch.futures[j].answer = "timeout"
       /\ fetch.futures[k].answer = "response"
       /\ fetch.urls[j] # fetch.urls[k]

\* C22: a request that fails or times out becomes the value "Error: ..." of
\* its URL and nothing is raised to the caller; in the returned mapping a
\* URL whose requests all succeeded has its own decoded body and a URL whose
\* requests all failed has an "Error: ..." string, whatever the other URLs
\* did.
C22_FailureIsAValue ==
  /\ fetch.pc # "raised"
  /\ fetch.pc # "idle" =>
       \A k \in FuturesIn("done") :
          fetch.futures[k].answer # "response" =>
             /\ ~fetch.futures[k].raised
             /\ fetch.futures[k].content = <<"Error: ", fetch.futures[k].answer>>
  /\ fetch.pc = "returned" =>
       \A url \in InputUrls :
          /\ (\A k \in RequestsOf(url) : fetch.futures[k].answer = "response")
                => fetch.results[url] = DecodeReplace(Body(url))
          /\ (\A k \in RequestsOf(url) : fetch.futures[k].answer # "response")
                => fetch.results[url][1] = "Error: "

C22_Witness ==
  /\ fetch.pc = "returned"
  /\ DOMAIN fetch.results = {"u1", "u2"}
  /\ fetch.results["u1"] = <<"Error: ", "timeout">>
  /\ fetch.results["u2"] = <<"b", "U+FFFD">>

\* C23: never more than max_workers requests are running at once, and a
\* request beyond the first max_workers starts only when enough earlier ones
\* have finished to leave it a thread.
C23_PoolBoundsRequestsInFlight ==
  /\ [](fetch.pc # "idle" => Cardinality(FuturesIn("running")) <= fetch.max_workers)
  /\ [][\A k \in 1 .. MaxUrls :
          worker_start(k) =>
             /\ \A j \in 1 .. k - 1 : fetch.futures[j].state # "queued"
             /\ Cardinality(FuturesIn("done")) >= k - fetch.max_workers]_vars

C23_Witness ==
  /\ fetch.pc # "idle"
  /\ Cardinality(FuturesIn("running")) = fetch.max_workers
  /\ FuturesIn("queued") # {}
  /\ \E k \in FuturesIn("running") : k > fetch.max_workers

\* C24: when the batch has returned every request has finished and been
\* collected, nothing is added to the mapping afterwards, and a batch that
\* was called returns.
C24_ReturnsAfterAllWorkers ==
  /\ [](fetch.pc = "returned" =>
          /\ FuturesIn("done") = 1 .. Len(fetch.urls)
          /\ fetch.collected = 1 .. Len(fetch.urls))
  /\ [][fetch.pc = "returned" => fetch' = fetch]_vars
  /\ (fetch.pc = "submitting") ~> (fetch.pc = "returned")

C24_Witness ==
  /\ fetch.pc = "returned"
  /\ Len(fetch.urls) = MaxUrls
  /\ fetch.max_workers < MaxUrls
  /\ \E k \in 1 .. Len(fetch.urls) : fetch.futures[k].answer = "timeout"

\* C25: a step of a worker changes its own future and nothing else; the
\* mapping changes only when the caller collects a future, and then only at
\* the URL of that future, so an entry once written stays until the caller
\* writes that URL again.
C25_OnlyTheCallerWritesResults ==
  [][fetch.pc # "idle" =>
       /\ \A k \in 1 .. MaxUrls, answer \in AnswerInputs :
             worker_start(k) \/ worker_finish(k, answer) =>
                /\ fetch'.results = fetch.results
                /\ fetch'.collected = fetch.collected
                /\ \A j \in 1 .. Len(fetch.futures) :
                      j # k => fetch'.futures[j] = fetch.futures[j]
       /\ \A url \in DOMAIN fetch.results :
             /\ url \in DOMAIN fetch'.results
             /\ fetch'.results[url] # fetch.results[url] =>
                  \E k \in 1 .. MaxUrls : collect(k) /\ fetch.futures[k].url = url
       /\ \A url \in DOMAIN fetch'.results :
             url \notin DOMAIN fetch.results =>
                \E k \in 1 .. MaxUrls : collect(k) /\ fetch.futures[k].url = url]_vars

C25_Witness ==
  /\ fetch.pc = "collecting"
  /\ fetch.max_workers = 2
  /\ Cardinality(DOMAIN fetch.results) = 2
  /\ FuturesIn("running") # {}

(***************************************************************************)
(* The documents table.                                                    *)
(***************************************************************************)

\* The names the table holds.
StoredNames == {db_documents[i].name : i \in DOMAIN db_documents}

\* C26: the table holds one row per document name: after any sequence of
\* saves the number of rows is the number of distinct names saved.
C26_OneRowPerName == Len(db_documents) = Cardinality(StoredNames)

\* The rows a search put out are the first ones of an order of the stored
\* rows by modification time, newest first.
NewestFirst(rows) ==
  /\ \A i, j \in DOMAIN rows : i < j => rows[i].modified_at >= rows[j].modified_at
  /\ \A i, j \in DOMAIN rows : i # j => rows[i].id # rows[j].id
  /\ \A i \in DOMAIN rows, k \in DOMAIN db_documents :
        (\A j \in DOMAIN rows : rows[j].id # db_documents[k].id)
           => db_documents[k].modified_at <= rows[i].modified_at

C28_HistoryNewestFirstAtMostLimit ==
  [][\A data \in HistoryDataInputs :
       save_history(data, "copied") =>
          /\ history'[1] = HistoryEntry(data, "copied", Now)
          /\ Len(history') <= HistoryLimit
          /\ Len(history') = (IF Len(history) < HistoryLimit
                               THEN Len(history) + 1 ELSE HistoryLimit)
          /\ \A i \in 2 .. Len(history') : history'[i] = history[i - 1]]_vars

C28_Witness ==
  /\ Len(history) = HistoryLimit
  /\ history[1].timestamp = StartTime + 2
  /\ history[HistoryLimit].timestamp = StartTime - (HistoryLimit - 2)

(***************************************************************************)
(* The language detection.                                                 *)
(***************************************************************************)

\* C29: the language reported for a content is "text" when no pattern of
\* any language is found, and otherwise the language whose score no other
\* language exceeds and no language earlier in the table equals; it is
\* thereby a function of the content.
C29_HighestScoreFirstInTable ==
  out.msg = "Language" =>
     LET items == ScoreItems(args.content)
     IN /\ (\A k \in DOMAIN items : items[k].score = 0) => out.language = "text"
        /\ (\E k \in DOMAIN items : items[k].score > 0) =>
             \E k \in DOMAIN items :
                /\ out.language = items[k].lang
                /\ \A j \in DOMAIN items : items[j].score <= items[k].score
                /\ \A j \in 1 .. k - 1 : items[j].score < items[k].score

C29_Witness ==
  /\ out.msg = "Language"
  /\ out.language = "html"
  /\ LET items == ScoreItems(args.content)
     IN /\ \E k \in DOMAIN items : items[k].lang = "xml" /\ items[k].score = 1
        /\ \E k \in DOMAIN items : items[k].lang = "markdown" /\ items[k].score = 1
        /\ \A k \in DOMAIN items : items[k].score <= 1

(***************************************************************************)
(* The encryption.                                                         *)
(***************************************************************************)

\* Every character of a text is a letter by the test the code makes.
Alphabetic(text) == \A i \in DOMAIN text : IsLower(text[i]) \/ IsUpper(text[i])

\* C30: decrypting with a password what encrypting with that password
\* returned gives back the text, for every text whose characters all pass
\* the code's lower- or upper-case test and for every password.
C30_DecryptInvertsEncrypt ==
  (/\ out.msg = "decrypted"
   /\ out.password = args.password
   /\ Alphabetic(args.content))
     => out.text = args.content

\* The same for the texts made of the letters a-z and A-Z.
DecryptInvertsEncryptOnAsciiLetters ==
  (/\ out.msg = "decrypted"
   /\ out.password = args.password
   /\ \A i \in DOMAIN args.content :
         args.content[i] \in (97 .. 122) \cup (65 .. 90))
     => out.text = args.content

\* The base64 or the UTF-8 decoding of a string fails.
TransportFails(encrypted) ==
  \/ ~b64decode(encrypted).ok
  \/ ~Utf8Valid(b64decode(encrypted).bytes)

\* C31: decrypt_content never raises, and on a string whose base64 or UTF-8
\* decoding fails it returns "[Decryption failed]".
C31_DecryptFailureIsSentinel ==
  out.msg = "decrypted" =>
     /\ out.text # Raised
     /\ TransportFails(args.encrypted) => out.text = DecryptionFailed

C31_Witness ==
  /\ out.msg = "decrypted"
  /\ args.fn = "decrypt"
  /\ ~b64decode(args.encrypted).ok
  /\ Len(args.encrypted) = MaxCipherLen
  /\ out.text = DecryptionFailed

(***************************************************************************)
(* The remaining properties of the document session.                       *)
(***************************************************************************)

\* C34: a save writes to the filename given when there is one and otherwise
\* to the document's own file_path; with neither, and an empty answer to the
\* prompt for a filename, it reports that no filename was specified,
\* attempts no write and leaves the documents and the cursor as they were.
C34_SaveTargetPriority ==
  [][\A filename \in Paths \cup {NoPath}, typed \in TypedInputs, write_ok \in BOOLEAN :
       save_file(filename, typed, write_ok) =>
          LET before == get_current_document
              after == documents'[CurrentIndex + 1]
          IN /\ (filename # NoPath /\ write_ok) =>
                  out'.msg = "Saved" /\ after.file_path = filename
             /\ (filename = NoPath /\ before.file_path # NoPath /\ write_ok) =>
                  out'.msg = "Saved" /\ after.file_path = before.file_path
             /\ (filename = NoPath /\ before.file_path = NoPath /\ typed = NoPath) =>
                  /\ out'.msg = "NoFilename"
                  /\ documents' = documents
                  /\ current_doc_index' = current_doc_index]_vars

C34_Witness ==
  /\ out.msg = "NoFilename"
  /\ get_current_document.modified
  /\ get_current_document.file_path = NoPath
  /\ \E i \in Positions : documents[i].file_path = "/d/f2"

\* The list after this step is the list before it without the document at
\* the 0-based position idx, the others in their order.
RemovedAt(idx) ==
  /\ 0 <= idx /\ idx < Len(documents)
  /\ Len(documents') = Len(documents) - 1
  /\ \A i \in 1 .. idx : documents'[i] = documents[i]
  /\ \A i \in (idx + 1) .. Len(documents') : documents'[i] = documents[i + 1]

\* C35: the list gets shorter only by a close, which removes the document
\* it was aimed at and keeps the others in their order; every step that
\* does not shorten the list (edit, save, replace, find, switch, open,
\* create, paste, fetch, a tick of the auto-save worker, a close that is
\* refused) leaves every document other than the current one where it was
\* and as it was, so it removes and reorders nothing.
C35_OnlyCloseRemoves ==
  [][/\ Len(documents') < Len(documents) =>
          /\ \E has_index \in BOOLEAN, index \in NumberInputs, confirmed \in BOOLEAN :
                close_document(has_index, index, confirmed)
          /\ \A has_index \in BOOLEAN, index \in NumberInputs, confirmed \in BOOLEAN :
                close_document(has_index, index, confirmed) =>
                   RemovedAt(IF has_index THEN index - 1 ELSE current_doc_index)
     /\ Len(documents') >= Len(documents) =>
          \A i \in Positions :
             i # CurrentIndex + 1 => documents'[i] = documents[i]]_vars

\* A close has removed the first of two documents: the one left is the
\* second one created, with the text put into it.
C35_Witness ==
  /\ out.msg = "Closed"
  /\ Len(documents) = 1
  /\ documents[1].name # "Untitled"
  /\ documents[1].content = <<"a">>

\* C38: after any sequence of operations that add a document, switch or
\* close (the current document, one before it, one after it), the cursor
\* is a position of the list.
C38_CursorIsAPosition ==
  0 <= current_doc_index /\ current_doc_index < Len(documents)

\* The first document, which was current, has been closed, and the cursor
\* is on the new first one.
C38_Witness ==
  /\ out.msg = "Closed"
  /\ current_doc_index = 0
  /\ Len(documents) = MaxCursorDocs - 1
  /\ documents[1].name # "Untitled"

\* C39: when a close removes a document before the cursor the cursor goes
\* down by one, when it removes one after the cursor the cursor stays, and
\* either way the same document is current; when it removes the current
\* document its predecessor becomes current, or the new first document when
\* the closed one was first.
C39_CloseKeepsCurrentDocument ==
  [][Len(documents') < Len(documents) =>
       \A has_index \in BOOLEAN, index \in CursorNumberInputs, confirmed \in BOOLEAN :
          close_document(has_index, index, confirmed) =>
             LET idx == IF has_index THEN index - 1 ELSE current_doc_index
                 cur == current_doc_index
             IN /\ idx < cur =>
                     /\ current_doc_index' = cur - 1
                     /\ documents'[current_doc_index' + 1] = documents[cur + 1]
                /\ idx > cur =>
                     /\ current_doc_index' = cur
                     /\ documents'[current_doc_index' + 1] = documents[cur + 1]
                /\ (idx = cur /\ cur > 0) =>
                     /\ current_doc_index' = cur - 1
                     /\ documents'[current_doc_index' + 1] = documents[cur]
                /\ (idx = cur /\ cur = 0) =>
                     /\ current_doc_index' = 0
                     /\ documents'[1] = documents[2]]_vars

\* The first of three documents has been closed while the third was
\* current: the cursor went down and is still on it.
C39_Witness ==
  /\ out.msg = "Closed"
  /\ Len(documents) = MaxCursorDocs - 1
  /\ current_doc_index = MaxCursorDocs - 2
  /\ documents[1].name = NumberedName("Untitled-", 2)
  /\ documents[current_doc_index + 1].name = NumberedName("Untitled-", MaxCursorDocs)

\* The rows in which a query stands as it is written, the case of letters
\* ignored, in the content, the name or the tags.
LiteralMatching(query) ==
  {i \in DOMAIN db_documents :
     \/ Contains(Lower(db_documents[i].content), Lower(query))
     \/ Contains(Lower(db_documents[i].name), Lower(query))
     \/ Contains(Lower(db_documents[i].tags), Lower(query))}

\* C36: a search (with a limit that is not negative) returns the first
\* limit rows, newest first, of those whose content, name or tags contain
\* the query as a literal substring, the case of letters ignored, also when
\* the query holds a '%' or a '_'.
C36_SearchMatchesLiterally ==
  (out.msg = "search" /\ out.limit >= 0) =>
     /\ \A k \in DOMAIN out.rows :
          \E i \in LiteralMatching(out.query) : db_documents[i] = out.rows[k]
     /\ Len(out.rows) = (IF out.limit < Cardinality(LiteralMatching(out.query))
                          THEN out.limit ELSE Cardinality(LiteralMatching(out.query)))
     /\ \A j, k \in DOMAIN out.rows :
          j < k => out.rows[j].modified_at >= out.rows[k].modified_at

\* The same for the queries without '%' and '_'.
SearchMatchesLiterallyWithoutWildcards ==
  (/\ out.msg = "search"
   /\ out.limit >= 0
   /\ \A k \in DOMAIN out.query : out.query[k] \notin {"%", "_"}) =>
     /\ \A k \in DOMAIN out.rows :
          \E i \in LiteralMatching(out.query) : db_documents[i] = out.rows[k]
     /\ Len(out.rows) = (IF out.limit < Cardinality(LiteralMatching(out.query))
                          THEN out.limit ELSE Cardinality(LiteralMatching(out.query)))
     /\ \A j, k \in DOMAIN out.rows :
          j < k => out.rows[j].modified_at >= out.rows[k].modified_at

\* C40: every row of the documents table carries the checksum of the
\* content stored in that row.
C40_RowChecksumIsHashOfRowContent ==
  \A i \in DOMAIN db_documents :
     db_documents[i].checksum = Md5(Encode(db_documents[i].content))

\* C33: a dispatch calls every callback registered for the event, in the
\* order of registration, whichever of them raise, and nothing reaches the
\* caller.
C33_DispatchReachesEverySubscriber ==
  [][\A hook_name \in HookNames :
       trigger_hook(hook_name) =>
         /\ out'.called = hooks[hook_name]
         /\ ~out'.raised]_vars

\* A dispatch in which a callback raised and a later one was called.
C33_Witness ==
  /\ out.msg = "triggered"
  /\ \E i \in 1 .. Len(out.called) : out.called[i].fails /\ i < Len(out.called)
  /\ out.printed # <<>>
  /\ \E other \in HookNames \ {out.hook_name} : hooks[other] # <<>>

\* C32: the loop has not left while a document is modified unless the
\* unsaved documents were listed, the question put and the answer a yes.
C32_NoExitWithUnsavedUnlessConfirmed ==
  loop = "exited" => modified_docs = {} \/ (out.asked /\ out.confirmed)

\* The same for the quit command alone.
QuitCommandAsksFirst ==
  loop = "exited" /\ out.via = "quit" =>
    modified_docs = {} \/ (out.asked /\ out.confirmed)

\* C37: an exception raised by a command is caught by the loop: the loop is
\* back at its prompt, the list is not empty and the cursor is a position
\* of the list.
C37_FailureKeepsLoopAlive ==
  [][backup(FALSE) =>
       /\ loop' = "prompt"
       /\ Len(documents') >= 1
       /\ current_doc_index' \in 0 .. (Len(documents') - 1)]_vars

\* A failed command in a session of several documents, one of them
\* modified, with the loop at its prompt.
C37_Witness ==
  /\ out = Msg("Error", 0)
  /\ loop = "prompt"
  /\ Len(documents) = MaxDocs
  /\ modified_docs # {}

====
